---- MODULE Spec2Model ----
(***************************************************************************)
(* Retrieval-and-ranking pipeline of the shopping assistant backend:       *)
(* RAGService.search_products (cache lookup, scrape fan-out, relevance     *)
(* filter, background indexing, scoring) with ScrapingService and          *)
(* ScoringService.                                                         *)
(*                                                                         *)
(* Conventions.  A Python str is a tuple of one-character strings, so that *)
(* lower(), "in", startswith and re.sub act on characters.  An optional    *)
(* number (absent key, None, or a value) is <<>> or <<n>>.  Money is in    *)
(* cents, ratings in tenths of a star, scores in hundredths of a point.    *)
(***************************************************************************)
EXTENDS Integers, Sequences, FiniteSets, TLC

VARIABLES
    h_pc,        \* harness: position of the function under test
    h_query,     \* harness: query text given to the function
    h_intent,    \* harness: ParsedIntent given to the function
    h_products,  \* harness: list of listings given to the function
    h_perm,      \* harness: a permutation of h_products
    h_out,       \* harness: what the function returned
    sp_query,          \* search_products: query
    parsed_intent,     \* search_products: the ParsedIntent
    max_results,       \* search_products: max_results
    llm,               \* which LLM client RAGService.__init__ configured
    pc,                \* position of the request in search_products
    qdrant,            \* the "products" collection of the similarity index
    vector_results,    \* search_products: vector_results
    task,              \* the fetch task of each retailer of the fan-out
    scraped_products,  \* search_products: scraped_products
    sp_filtered,       \* search_products: filtered_products
    sp_products,       \* search_products: products, as handed to scoring
    data_source,       \* search_products: data_source
    scored_products,   \* search_products: scored_products
    top_products,      \* search_products: top_products
    result,            \* the dict search_products returns
    index_task,        \* the task created for _background_index
    _is_scraping,      \* inventory_scrape_service: _is_scraping
    _current_scrape,   \* inventory_scrape_service: _current_scrape (a reference)
    _last_scrape,      \* inventory_scrape_service: _last_scrape (a reference)
    scrape_stats,      \* the InventoryScrapeStats object of each run
    scrape_request     \* each POST /inventory/scrape and the run it started

hvars == <<h_pc, h_query, h_intent, h_products, h_perm, h_out>>

pvars == <<sp_query, parsed_intent, max_results, llm, pc, qdrant, vector_results, task,
           scraped_products, sp_filtered, sp_products, data_source,
           scored_products, top_products, result, index_task>>

ivars == <<_is_scraping, _current_scrape, _last_scrape, scrape_stats, scrape_request>>

vars == <<hvars, pvars, ivars>>

(***************************************************************************)
(* str helpers                                                             *)
(***************************************************************************)
LowerLetters ==
    {"a","b","c","d","e","f","g","h","i","j","k","l","m",
     "n","o","p","q","r","s","t","u","v","w","x","y","z"}

UpperToLower ==
    [c \in {"A","B","C","D","E","F","G","H","I","J","K","L","M",
            "N","O","P","Q","R","S","T","U","V","W","X","Y","Z"} |->
        CASE c = "A" -> "a" [] c = "B" -> "b" [] c = "C" -> "c" [] c = "D" -> "d"
          [] c = "E" -> "e" [] c = "F" -> "f" [] c = "G" -> "g" [] c = "H" -> "h"
          [] c = "I" -> "i" [] c = "J" -> "j" [] c = "K" -> "k" [] c = "L" -> "l"
          [] c = "M" -> "m" [] c = "N" -> "n" [] c = "O" -> "o" [] c = "P" -> "p"
          [] c = "Q" -> "q" [] c = "R" -> "r" [] c = "S" -> "s" [] c = "T" -> "t"
          [] c = "U" -> "u" [] c = "V" -> "v" [] c = "W" -> "w" [] c = "X" -> "x"
          [] c = "Y" -> "y" [] c = "Z" -> "z"]

Digits == {"0","1","2","3","4","5","6","7","8","9"}

\* the characters the regex class \w matches
WordChars == LowerLetters \cup DOMAIN UpperToLower \cup Digits \cup {"_"}

\* str.lower()
Lower(s) ==
    [i \in 1..Len(s) |-> IF s[i] \in DOMAIN UpperToLower THEN UpperToLower[s[i]] ELSE s[i]]

\* sub in s
Contains(s, sub) ==
    \E i \in 0..(Len(s) - Len(sub)) : \A j \in 1..Len(sub) : s[i + j] = sub[j]

\* s.startswith(prefix)
StartsWith(s, prefix) ==
    /\ Len(prefix) <= Len(s)
    /\ \A j \in 1..Len(prefix) : s[j] = prefix[j]

\* any(t in s for t in terms), terms a list of str
AnyIn(terms, s) == \E k \in 1..Len(terms) : Contains(s, terms[k])

\* a + " " + b, as in the f-strings f"{title} {description}"
Joined(a, b) == a \o <<" ">> \o b

\* seq[:n]
Prefix(seq, n) == SubSeq(seq, 1, IF n < Len(seq) THEN n ELSE Len(seq))

Range(seq) == {seq[i] : i \in 1..Len(seq)}

(***************************************************************************)
(* Listings: the product dicts the scrapers build.                         *)
(***************************************************************************)
None == <<>>

Some(n) == <<n>>

\* truthiness of an optional number: None and 0 are falsy
Truthy(x) == x # None /\ x[1] # 0

\* x or 0
OrZero(x) == IF x = None THEN 0 ELSE x[1]

Product(id, title, description, price, rating, review_count, image_url, affiliate_url, source) ==
    [id |-> id, title |-> title, description |-> description, price |-> price,
     rating |-> rating, review_count |-> review_count, image_url |-> image_url,
     affiliate_url |-> affiliate_url, source |-> source,
     brand |-> <<>>, category |-> <<>>, scores |-> None, vector_score |-> None]

(***************************************************************************)
(* ScrapingService._deduplicate                                            *)
(***************************************************************************)
\* re.sub(r'[^\w]', '', title.lower())
Fingerprint(title) == SelectSeq(Lower(title), LAMBDA c : c \in WordChars)

FingerprintSet(products) == {Fingerprint(products[i].title) : i \in 1..Len(products)}

\* 'seen' kept as one growing str instead of a set: membership becomes a
\* substring test
RECURSIVE DedupLoopSeenStr(_, _, _, _)
DedupLoopSeenStr(products, i, seen, unique) ==
    IF i > Len(products) THEN unique
    ELSE LET clean == Fingerprint(products[i].title) IN
         IF clean # <<>> /\ ~Contains(seen, clean)
         THEN DedupLoopSeenStr(products, i + 1, seen \o clean, Append(unique, products[i]))
         ELSE DedupLoopSeenStr(products, i + 1, seen, unique)

DeduplicateSeenStr(products) == DedupLoopSeenStr(products, 1, <<>>, <<>>)

\* the loop body of _deduplicate: i is the position in products
RECURSIVE DedupLoop(_, _, _, _)
DedupLoop(products, i, seen, unique) ==
    IF i > Len(products) THEN unique
    ELSE LET clean == Fingerprint(products[i].title) IN
         IF clean # <<>> /\ clean \notin seen
         THEN DedupLoop(products, i + 1, seen \cup {clean}, Append(unique, products[i]))
         ELSE DedupLoop(products, i + 1, seen, unique)

_deduplicate(products) == DedupLoop(products, 1, {}, <<>>)

(***************************************************************************)
(* Deduplicator under test: _deduplicate applied to a list of raw listings *)
(* and to a permutation of it, then to its own output.                     *)
(***************************************************************************)
MaxDedupLen == 3

PlaceholderImage == <<"h","t","t","p","s",":","/","/","p","l","a","c","e","h","o","l","d",".","c","o","/","3","0","0","x","3","0","0","/","1","a","1","a","2","e","/","e","a","e","a","e","a","?","t","e","x","t","=","E">>

\* Scenario C's pair shares the fingerprint "cottontshirt"
CottonWithImage ==
    Product(<<"h","t","t","p","s",":","/","/","e","x","p","r","e","s","s",".","c","o","m","/","p","/","1">>, <<"C","o","t","t","o","n"," ","T","-","S","h","i","r","t">>, <<>>, Some(1999), None, None,
            <<"h","t","t","p","s",":","/","/","e","x","p","r","e","s","s",".","c","o","m","/","i","/","1",".","j","p","g">>, <<"h","t","t","p","s",":","/","/","e","x","p","r","e","s","s",".","c","o","m","/","p","/","1">>, <<"E","x","p","r","e","s","s">>)

CottonWithDescription ==
    Product(<<"h","t","t","p","s",":","/","/","a","s","o","s",".","c","o","m","/","p","/","7">>, <<"c","o","t","t","o","n"," ","t","s","h","i","r","t">>, <<"S","o","f","t"," ","o","r","g","a","n","i","c"," ","c","o","t","t","o","n"," ","t","e","e">>, Some(1999),
            Some(44), Some(120), <<>>, <<"h","t","t","p","s",":","/","/","a","s","o","s",".","c","o","m","/","p","/","7">>, <<"A","S","O","S">>)

DedupPool ==
    { CottonWithImage,
      CottonWithDescription,
      Product(<<"h","t","t","p","s",":","/","/","a","s","o","s",".","c","o","m","/","p","/","8">>, <<"C","o","t","t","o","n"," ","S","h","i","r","t">>, <<"C","o","t","t","o","n"," ","S","h","i","r","t"," ","f","r","o","m"," ","A","S","O","S">>, Some(2500),
              None, None, PlaceholderImage, <<"h","t","t","p","s",":","/","/","a","s","o","s",".","c","o","m","/","p","/","8">>, <<"A","S","O","S">>),
      Product(<<"h","t","t","p","s",":","/","/","a","s","o","s",".","c","o","m","/","p","/","9">>, <<"S","h","i","r","t">>, <<"S","h","i","r","t"," ","f","r","o","m"," ","A","S","O","S">>, Some(1500),
              None, None, PlaceholderImage, <<"h","t","t","p","s",":","/","/","a","s","o","s",".","c","o","m","/","p","/","9">>, <<"A","S","O","S">>),
      Product(<<"h","t","t","p","s",":","/","/","a","s","o","s",".","c","o","m","/","p","/","0">>, <<"!","!","!"," ","-","-","-">>, <<>>, Some(1200),
              None, None, PlaceholderImage, <<"h","t","t","p","s",":","/","/","a","s","o","s",".","c","o","m","/","p","/","0">>, <<"A","S","O","S">>) }

ListsUpTo(pool, n) == UNION {[1..k -> pool] : k \in 0..n}

IndexPerms(n) == {f \in [1..n -> 1..n] : \A i, j \in 1..n : f[i] = f[j] => i = j}

NoIntent ==
    [category |-> <<>>, budget_min |-> None, budget_max |-> None,
     features |-> <<>>, brand_preferences |-> <<>>]

\* the request variables while a single function is under test
NoResult ==
    [products |-> <<>>, total_found |-> 0, data_source |-> {}, confidence_level |-> "none",
     disclaimer |-> <<>>]

PipelineIdle ==
    /\ sp_query = <<>>
    /\ parsed_intent = NoIntent
    /\ max_results = 0
    /\ llm = "none"
    /\ pc = "idle"
    /\ qdrant = [exists |-> FALSE, dim |-> 0, points |-> <<>>]
    /\ vector_results = <<>>
    /\ task = <<>>
    /\ scraped_products = <<>>
    /\ sp_filtered = <<>>
    /\ sp_products = <<>>
    /\ data_source = {}
    /\ scored_products = <<>>
    /\ top_products = <<>>
    /\ result = NoResult
    /\ index_task = [state |-> "none", products |-> <<>>, outcome |-> "none"]

\* the single-function variables while a request is running
HarnessIdle ==
    /\ h_pc = "idle"
    /\ h_query = <<>>
    /\ h_intent = NoIntent
    /\ h_products = <<>>
    /\ h_perm = <<>>
    /\ h_out = <<>>

\* how many POST /inventory/scrape requests are followed
TriggerCount == 2

\* an InventoryScrapeStats that no run has created yet
NoStats == [created |-> FALSE, total_products_scraped |-> 0, completed_at |-> FALSE, errors |-> 0]

\* the module globals of inventory_scrape_service as imported, no request issued
InventoryIdle ==
    /\ _is_scraping = FALSE
    /\ _current_scrape = None
    /\ _last_scrape = None
    /\ scrape_stats = [r \in 1..TriggerCount |-> NoStats]
    /\ scrape_request = [r \in 1..TriggerCount |->
                            [pc |-> "new", async_mode |-> FALSE, response |-> "none", job |-> "none"]]

DedupInit ==
    /\ h_pc = "input"
    /\ h_query = <<>>
    /\ h_intent = NoIntent
    /\ h_products \in ListsUpTo(DedupPool, MaxDedupLen)
    /\ \E f \in IndexPerms(Len(h_products)) :
           h_perm = [i \in 1..Len(h_products) |-> h_products[f[i]]]
    /\ h_out = [first |-> <<>>, permuted |-> <<>>, again |-> <<>>]
    /\ PipelineIdle
    /\ InventoryIdle

DedupRun ==
    /\ h_pc = "input"
    /\ h_pc' = "deduped"
    /\ h_out' = [h_out EXCEPT !.first = _deduplicate(h_products),
                              !.permuted = _deduplicate(h_perm)]
    /\ UNCHANGED <<h_query, h_intent, h_products, h_perm, pvars, ivars>>

DedupRerun ==
    /\ h_pc = "deduped"
    /\ h_pc' = "rerun"
    /\ h_out' = [h_out EXCEPT !.again = _deduplicate(h_out.first)]
    /\ UNCHANGED <<h_query, h_intent, h_products, h_perm, pvars, ivars>>

DedupNext == DedupRun \/ DedupRerun

(***************************************************************************)
(* RAGService._filter_by_keywords                                          *)
(***************************************************************************)
\* the maximal runs of \w characters of s, in order
RECURSIVE WordRuns(_, _, _, _)
WordRuns(s, i, cur, acc) ==
    IF i > Len(s) THEN (IF cur = <<>> THEN acc ELSE Append(acc, cur))
    ELSE IF s[i] \in WordChars THEN WordRuns(s, i + 1, Append(cur, s[i]), acc)
    ELSE WordRuns(s, i + 1, <<>>, IF cur = <<>> THEN acc ELSE Append(acc, cur))

\* set(re.findall(r'\b[a-z]{3,}\b', query_lower)): a match starts and ends at
\* a word boundary, so it is a whole run of \w characters, all of them a-z
QueryWords(query_lower) ==
    {w \in Range(WordRuns(query_lower, 1, <<>>, <<>>)) :
        Len(w) >= 3 /\ \A i \in 1..Len(w) : w[i] \in LowerLetters}

category_synonyms ==
    << [key |-> <<"j","e","a","n","s">>,   synonyms |-> <<<<"j","e","a","n","s">>, <<"d","e","n","i","m">>, <<"j","e","a","n">>, <<"p","a","n","t","s">>, <<"t","r","o","u","s","e","r","s">>>>],
       [key |-> <<"s","h","i","r","t">>,   synonyms |-> <<<<"s","h","i","r","t">>, <<"t","e","e">>, <<"t","o","p">>, <<"b","l","o","u","s","e">>, <<"p","o","l","o">>, <<"b","u","t","t","o","n">>>>],
       [key |-> <<"t","-","s","h","i","r","t">>, synonyms |-> <<<<"t","-","s","h","i","r","t">>, <<"t","s","h","i","r","t">>, <<"t","e","e">>, <<"t"," ","s","h","i","r","t">>>>],
       [key |-> <<"d","r","e","s","s">>,   synonyms |-> <<<<"d","r","e","s","s">>, <<"g","o","w","n">>, <<"f","r","o","c","k">>, <<"m","a","x","i">>, <<"m","i","d","i">>, <<"m","i","n","i">>>>],
       [key |-> <<"s","h","o","e","s">>,   synonyms |-> <<<<"s","h","o","e","s">>, <<"s","n","e","a","k","e","r","s">>, <<"b","o","o","t","s">>, <<"h","e","e","l","s">>, <<"s","a","n","d","a","l","s">>, <<"f","o","o","t","w","e","a","r">>>>],
       [key |-> <<"j","a","c","k","e","t">>,  synonyms |-> <<<<"j","a","c","k","e","t">>, <<"c","o","a","t">>, <<"b","l","a","z","e","r">>, <<"o","u","t","e","r","w","e","a","r">>, <<"p","a","r","k","a">>>>],
       [key |-> <<"h","o","o","d","i","e">>,  synonyms |-> <<<<"h","o","o","d","i","e">>, <<"h","o","o","d","y">>, <<"s","w","e","a","t","s","h","i","r","t">>, <<"p","u","l","l","o","v","e","r">>>>],
       [key |-> <<"s","w","e","a","t","e","r">>, synonyms |-> <<<<"s","w","e","a","t","e","r">>, <<"j","u","m","p","e","r">>, <<"c","a","r","d","i","g","a","n">>, <<"k","n","i","t","w","e","a","r">>>>],
       [key |-> <<"s","h","o","r","t","s">>,  synonyms |-> <<<<"s","h","o","r","t","s">>, <<"s","h","o","r","t">>>>],
       [key |-> <<"s","k","i","r","t">>,   synonyms |-> <<<<"s","k","i","r","t">>>>],
       [key |-> <<"p","a","n","t","s">>,   synonyms |-> <<<<"p","a","n","t","s">>, <<"t","r","o","u","s","e","r","s">>, <<"c","h","i","n","o","s">>, <<"s","l","a","c","k","s">>>>],
       [key |-> <<"b","a","g">>,     synonyms |-> <<<<"b","a","g">>, <<"p","u","r","s","e">>, <<"h","a","n","d","b","a","g">>, <<"t","o","t","e">>, <<"b","a","c","k","p","a","c","k">>>>],
       [key |-> <<"w","a","t","c","h">>,   synonyms |-> <<<<"w","a","t","c","h">>, <<"w","a","t","c","h","e","s">>, <<"t","i","m","e","p","i","e","c","e">>>>] >>

\* gender_terms, in the dict's insertion order
gender_terms ==
    << [gender |-> "men",   terms |-> <<<<"m","e","n">>, <<"m","e","n","s">>, <<"m","e","n","'","s">>, <<"m","a","l","e">>, <<"m","a","n">>, <<"b","o","y">>, <<"b","o","y","s">>>>],
       [gender |-> "women", terms |-> <<<<"w","o","m","e","n">>, <<"w","o","m","e","n","s">>, <<"w","o","m","e","n","'","s">>, <<"f","e","m","a","l","e">>, <<"w","o","m","a","n">>, <<"g","i","r","l">>, <<"g","i","r","l","s">>, <<"l","a","d","i","e","s">>>>],
       [gender |-> "kids",  terms |-> <<<<"k","i","d","s">>, <<"k","i","d">>, <<"c","h","i","l","d","r","e","n">>, <<"c","h","i","l","d">>, <<"b","a","b","y">>, <<"t","o","d","d","l","e","r">>>>] >>

accessory_terms ==
    <<<<"s","u","n","g","l","a","s","s","e","s">>, <<"g","l","a","s","s","e","s">>, <<"b","e","l","t">>, <<"w","a","l","l","e","t">>, <<"j","e","w","e","l","r","y">>, <<"e","a","r","r","i","n","g">>,
      <<"n","e","c","k","l","a","c","e">>, <<"b","r","a","c","e","l","e","t">>, <<"r","i","n","g">>, <<"h","a","t">>, <<"c","a","p">>, <<"s","c","a","r","f">>, <<"g","l","o","v","e","s">>,
      <<"s","o","c","k","s">>, <<"t","i","e">>, <<"b","o","w"," ","t","i","e">>, <<"c","u","f","f","l","i","n","k","s">>>>

accessory_query_terms ==
    <<<<"a","c","c","e","s","s","o","r","i","e","s">>, <<"s","u","n","g","l","a","s","s","e","s">>, <<"j","e","w","e","l","r","y">>, <<"b","e","l","t">>, <<"w","a","l","l","e","t">>>>

\* target_keywords as computed before the loop over products
TargetKeywords(query_lower, intent) ==
    LET from_query ==
            UNION {Range(category_synonyms[k].synonyms) :
                      k \in {j \in 1..Len(category_synonyms) :
                                AnyIn(category_synonyms[j].synonyms, query_lower)}}
        cat_lower == Lower(intent.category)
        from_intent ==
            IF intent.category = <<>> THEN {}
            ELSE {cat_lower} \cup
                 UNION {Range(category_synonyms[k].synonyms) :
                           k \in {j \in 1..Len(category_synonyms) :
                                     category_synonyms[j].key = cat_lower}}
        found == from_query \cup from_intent
    IN  IF found = {} THEN QueryWords(query_lower) ELSE found

\* the genders whose terms occur in text, in the dict's order
GendersIn(text) ==
    {gender_terms[k].gender : k \in {j \in 1..Len(gender_terms) : AnyIn(gender_terms[j].terms, text)}}

\* target_gender: the first gender of gender_terms with a term in the query
TargetGender(query_lower) ==
    LET hits == {j \in 1..Len(gender_terms) : AnyIn(gender_terms[j].terms, query_lower)}
    IN  IF hits = {} THEN "none"
        ELSE gender_terms[CHOOSE j \in hits : \A k \in hits : j <= k].gender

\* whether the loop body appends p to 'filtered'
KeywordKeeps(p, query_lower, target_keywords, target_gender) ==
    LET title_lower == Lower(p.title)
        desc_lower == Lower(p.description)
        combined == Joined(title_lower, desc_lower)
        matches_category ==
            IF target_keywords # {} THEN \E kw \in target_keywords : Contains(combined, kw)
            ELSE TRUE
        product_genders == GendersIn(combined)
        matches_gender ==
            IF target_gender # "none" /\ product_genders # {}
            THEN target_gender \in product_genders
            ELSE TRUE
        is_accessory == AnyIn(accessory_terms, title_lower)
    IN  /\ ~(is_accessory /\ ~AnyIn(accessory_query_terms, query_lower))
        /\ matches_category
        /\ matches_gender

KeywordFiltered(query, products, intent) ==
    LET query_lower == Lower(query)
        target_keywords == TargetKeywords(query_lower, intent)
        target_gender == TargetGender(query_lower)
    IN  SelectSeq(products, LAMBDA p : KeywordKeeps(p, query_lower, target_keywords, target_gender))

\* the loosening step dropped: the filtered list is returned as it is
FilterNoSafetyValve(query, products, intent) ==
    KeywordFiltered(query, products, intent)

_filter_by_keywords(query, products, intent) ==
    IF products = <<>> THEN <<>>
    ELSE LET filtered == KeywordFiltered(query, products, intent) IN
         IF Len(filtered) < 5 /\ Len(products) > 5
         THEN Prefix(products, 30)
         ELSE filtered

(***************************************************************************)
(* Relevance Filter under test: _filter_by_keywords applied to N listings  *)
(* of which a chosen number pass the keyword, gender and accessory tests.  *)
(***************************************************************************)
MaxFilterLen == 32

MaxPassing == 6

DigitChars == <<"0","1","2","3","4","5","6","7","8","9">>

\* the URL of the i-th listing of a page
PageUrl(i) == <<"h","t","t","p","s",":","/","/","e","x","p","r","e","s","s",".","c","o","m","/","p","/">> \o <<DigitChars[(i \div 10) + 1], DigitChars[(i % 10) + 1]>>

ScrapedProduct(i, title, price, source) ==
    Product(PageUrl(i), title, title \o <<" ","f","r","o","m"," ">> \o source, Some(price), None, None,
            PlaceholderImage, PageUrl(i), source)

FilterTitles ==
    [passing |-> {<<"S","l","i","m"," ","F","i","t"," ","J","e","a","n","s"," ","M","e","n","s">>},
     failing |-> {<<"K","i","d","s"," ","D","e","n","i","m"," ","O","v","e","r","a","l","l","s">>, <<"L","e","a","t","h","e","r"," ","B","e","l","t"," ","M","e","n","s">>}]

FilterQueries == {<<"m","e","n","s"," ","j","e","a","n","s">>, <<"w","o","m","e","n","s"," ","j","e","a","n","s">>, <<"D","e","n","i","m"," ","u","n","d","e","r"," ","$","5","0">>}

FilterIntents ==
    {NoIntent, [NoIntent EXCEPT !.category = <<"j","e","a","n","s">>, !.budget_max = Some(5000)]}

\* the list lengths tried: the short ones around the threshold of 5 and the
\* long ones around the prefix length of 30
FilterLens == 0..7 \cup (MaxFilterLen - 2)..MaxFilterLen

FilterInit ==
    /\ h_pc = "input"
    /\ h_query \in FilterQueries
    /\ h_intent \in FilterIntents
    /\ \E n \in FilterLens, k \in 0..MaxPassing, front \in BOOLEAN,
          good \in FilterTitles.passing, bad \in FilterTitles.failing :
           /\ k <= n
           /\ h_products =
                 [i \in 1..n |->
                     ScrapedProduct(i,
                         IF (front /\ i <= k) \/ (~front /\ i > n - k) THEN good ELSE bad,
                         4000 + i, <<"E","x","p","r","e","s","s">>)]
    /\ h_perm = <<>>
    /\ h_out = <<>>
    /\ PipelineIdle
    /\ InventoryIdle

FilterRun ==
    /\ h_pc = "input"
    /\ h_pc' = "filtered"
    /\ h_out' = _filter_by_keywords(h_query, h_products, h_intent)
    /\ UNCHANGED <<h_query, h_intent, h_products, h_perm, pvars, ivars>>

FilterNext == FilterRun

(***************************************************************************)
(* ScoringService                                                          *)
(*                                                                         *)
(* Scores are computed in hundredths of a point with integer division and  *)
(* rounded to tenths as round(x, 1) does.  The median is carried doubled   *)
(* (median2 = 2 * median) so that the mean of two prices stays an integer. *)
(***************************************************************************)
WEIGHTS == [price |-> 30, rating |-> 25, review_volume |-> 15, spec_match |-> 30]

GENDER_KEYWORDS ==
    [men   |-> <<<<"m","e","n","'","s">>, <<"m","e","n","s">>, <<"m","a","l","e">>, <<"m","a","n">>, <<" ","m","e","n"," ">>, <<"f","o","r"," ","m","e","n">>, <<"g","u","y","s">>, <<"h","i","m">>>>,
     women |-> <<<<"w","o","m","e","n","'","s">>, <<"w","o","m","e","n","s">>, <<"f","e","m","a","l","e">>, <<"w","o","m","a","n">>, <<" ","w","o","m","e","n"," ">>, <<"f","o","r"," ","w","o","m","e","n">>, <<"l","a","d","i","e","s">>, <<"h","e","r">>, <<"g","i","r","l","s">>>>,
     kids  |-> <<<<"k","i","d","s">>, <<"c","h","i","l","d","r","e","n">>, <<"b","o","y","s">>, <<"g","i","r","l","s">>, <<"y","o","u","t","h">>, <<"t","o","d","d","l","e","r">>, <<"b","a","b","y">>, <<"i","n","f","a","n","t">>>>,
     unisex |-> <<<<"u","n","i","s","e","x">>, <<"g","e","n","d","e","r"," ","n","e","u","t","r","a","l">>, <<"a","l","l"," ","g","e","n","d","e","r","s">>>>]

Min(a, b) == IF a < b THEN a ELSE b

Max(a, b) == IF a > b THEN a ELSE b

\* round(x, 1) of a value in hundredths, as a value in tenths (ties to even)
Round1(c) ==
    LET q == c \div 10
        r == c % 10
    IN  IF r > 5 \/ (r = 5 /\ q % 2 = 1) THEN q + 1 ELSE q

\* the insertion that puts x before the pairs of equal key
RECURSIVE InsertBeforeEqual(_, _)
InsertBeforeEqual(sorted, x) ==
    IF sorted = <<>> THEN <<x>>
    ELSE IF sorted[Len(sorted)].k < x.k THEN Append(sorted, x)
    ELSE Append(InsertBeforeEqual(SubSeq(sorted, 1, Len(sorted) - 1), x), sorted[Len(sorted)])

\* a stable insertion sort of [k, v] pairs by ascending k
RECURSIVE InsertKeyed(_, _)
InsertKeyed(sorted, x) ==
    IF sorted = <<>> THEN <<x>>
    ELSE IF sorted[Len(sorted)].k <= x.k THEN Append(sorted, x)
    ELSE Append(InsertKeyed(SubSeq(sorted, 1, Len(sorted) - 1), x), sorted[Len(sorted)])

RECURSIVE SortKeyed(_)
SortKeyed(pairs) ==
    IF pairs = <<>> THEN <<>>
    ELSE InsertKeyed(SortKeyed(SubSeq(pairs, 1, Len(pairs) - 1)), pairs[Len(pairs)])

\* sorted(seq, key=Key): stable, ascending
StableSort(seq, Key(_)) ==
    LET sorted == SortKeyed([i \in 1..Len(seq) |-> [k |-> Key(seq[i]), v |-> seq[i]]])
    IN  [i \in 1..Len(seq) |-> sorted[i].v]

\* the mean of the two middle values written with - for +
Median2Diff(values) ==
    IF values = <<>> THEN 0
    ELSE LET sorted_values == StableSort(values, LAMBDA v : v)
             n == Len(sorted_values)
             mid == n \div 2
         IN  IF n % 2 = 0 THEN sorted_values[mid] - sorted_values[mid + 1]
             ELSE 2 * sorted_values[mid + 1]

\* 2 * _median(values); 0 for an empty list
Median2(values) ==
    IF values = <<>> THEN 0
    ELSE LET sorted_values == StableSort(values, LAMBDA v : v)
             n == Len(sorted_values)
             mid == n \div 2
         IN  IF n % 2 = 0 THEN sorted_values[mid] + sorted_values[mid + 1]
             ELSE 2 * sorted_values[mid + 1]

\* link = affiliate_url or link or url; the scrapers set affiliate_url only.
\* link and isinstance(link, str) and link.strip() and link.startswith("http")
HasValidLink(product) ==
    LET link == product.affiliate_url IN
    /\ link # <<>>
    /\ \E i \in 1..Len(link) : link[i] # " "
    /\ StartsWith(link, <<"h","t","t","p">>)

\* the gender one feature names: the if/elif chain of the loop over features
FeatureGender(feature) ==
    LET feature_lower == Lower(feature) IN
    IF AnyIn(<<<<"m","e","n","'","s">>, <<"m","e","n","s">>, <<"m","a","l","e">>, <<" ","m","e","n">>>>, feature_lower) THEN "men"
    ELSE IF AnyIn(<<<<"w","o","m","e","n","'","s">>, <<"w","o","m","e","n","s">>, <<"f","e","m","a","l","e">>, <<" ","w","o","m","e","n">>, <<"l","a","d","i","e","s">>>>, feature_lower) THEN "women"
    ELSE IF AnyIn(<<<<"k","i","d","s">>, <<"c","h","i","l","d","r","e","n">>, <<"b","o","y","s">>, <<"g","i","r","l","s">>, <<"y","o","u","t","h">>>>, feature_lower) THEN "kids"
    ELSE IF AnyIn(<<<<"u","n","i","s","e","x">>>>, feature_lower) THEN "unisex"
    ELSE "none"

\* user_gender: the gender of the first feature that names one
UserGender(features) ==
    LET hits == {i \in 1..Len(features) : FeatureGender(features[i]) # "none"}
    IN  IF hits = {} THEN "none"
        ELSE FeatureGender(features[CHOOSE i \in hits : \A j \in hits : i <= j])

ExcludeKeywords(user_gender) ==
    IF user_gender = "men" THEN GENDER_KEYWORDS.women \o GENDER_KEYWORDS.kids
    ELSE IF user_gender = "women" THEN GENDER_KEYWORDS.men \o GENDER_KEYWORDS.kids
    ELSE <<>>

_filter_products(products, intent) ==
    IF products = <<>> THEN <<>>
    ELSE LET with_links == SelectSeq(products, HasValidLink)
             products_with_links == IF with_links = <<>> THEN products ELSE with_links
             user_gender == UserGender(intent.features)
             exclude_keywords == ExcludeKeywords(user_gender)
         IN  IF user_gender = "none" THEN products_with_links
             ELSE SelectSeq(products_with_links,
                      LAMBDA p : ~AnyIn(exclude_keywords, Lower(Joined(p.title, p.description))))

\* _calculate_price_score divides by median_price when no budget applies
PriceScoreRaises(price, budget_max, median2) ==
    /\ Truthy(price) /\ price[1] > 0
    /\ ~(Truthy(budget_max) /\ budget_max[1] > 0)
    /\ median2 = 0

\* the price score with the share of the budget spent, not saved, rewarded
PriceScoreCostlierBetter(price, budget_max, median2) ==
    IF ~Truthy(price) \/ price[1] <= 0 THEN 5000
    ELSE IF Truthy(budget_max) /\ budget_max[1] > 0
    THEN IF price[1] > budget_max[1]
         THEN Max(0, 10000 - ((price[1] - budget_max[1]) * 10000) \div budget_max[1])
         ELSE Min(10000, 6000 + (price[1] * 4000) \div budget_max[1])
    ELSE 7000

_calculate_price_score(price, budget_max, median2) ==
    IF ~Truthy(price) \/ price[1] <= 0 THEN 5000
    ELSE IF Truthy(budget_max) /\ budget_max[1] > 0
    THEN IF price[1] > budget_max[1]
         THEN Max(0, 10000 - ((price[1] - budget_max[1]) * 10000) \div budget_max[1])
         ELSE Min(10000, 6000 + ((budget_max[1] - price[1]) * 4000) \div budget_max[1])
    ELSE IF 2 * price[1] <= median2
         THEN Min(10000, 7000 + ((median2 - 2 * price[1]) * 3000) \div median2)
         ELSE Max(3000, 7000 - ((2 * price[1] - median2) * 4000) \div median2)

_calculate_rating_score(rating) ==
    IF ~Truthy(rating) \/ rating[1] <= 0 THEN 5000
    ELSE IF rating[1] >= 40 THEN 7000 + (rating[1] - 40) * 300
    ELSE IF rating[1] >= 30 THEN 5000 + (rating[1] - 30) * 200
    ELSE Max(0, (rating[1] * 500) \div 3)

\* 1000 * math.log10(n), for the review counts (plus one) the listings carry
Log10Milli ==
    [n \in {1, 6, 121, 201, 801, 1001, 1801, 2501, 3201, 5001, 5601, 15001} |->
        CASE n = 1 -> 0       [] n = 6 -> 778      [] n = 121 -> 2083
          [] n = 201 -> 2303  [] n = 801 -> 2904   [] n = 1001 -> 3000
          [] n = 1801 -> 3256 [] n = 2501 -> 3398  [] n = 3201 -> 3505
          [] n = 5001 -> 3699 [] n = 5601 -> 3748  [] n = 15001 -> 4176]

_calculate_review_score(review_count, max_reviews) ==
    IF ~Truthy(review_count) \/ review_count[1] <= 0 THEN 3000
    ELSE LET log_count == Log10Milli[review_count[1] + 1]
             log_max == IF max_reviews > 0 THEN Log10Milli[max_reviews + 1] ELSE 1000
         IN  Min(10000, (log_count * 10000) \div log_max)

_calculate_spec_match_score(product, intent) ==
    IF intent.features = <<>> /\ intent.brand_preferences = <<>> THEN 7000
    ELSE LET total_requirements == Len(intent.features) + Len(intent.brand_preferences)
             product_text == Lower(Joined(Joined(product.title, product.description), <<"{","}">>))
             product_brand == Lower(product.brand)
             feature_hits ==
                 {i \in 1..Len(intent.features) : Contains(product_text, Lower(intent.features[i]))}
             brand_hits ==
                 {i \in 1..Len(intent.brand_preferences) :
                     \/ Contains(product_brand, Lower(intent.brand_preferences[i]))
                     \/ Contains(product_text, Lower(intent.brand_preferences[i]))}
             matches == Cardinality(feature_hits) + Cardinality(brand_hits)
         IN  5000 + (matches * 5000) \div total_requirements

_calculate_scores(product, intent, median2, max_reviews) ==
    LET price_score == _calculate_price_score(product.price, intent.budget_max, median2)
        rating_score == _calculate_rating_score(product.rating)
        review_score == _calculate_review_score(product.review_count, max_reviews)
        spec_score == _calculate_spec_match_score(product, intent)
        final_score ==
            (price_score * WEIGHTS.price + rating_score * WEIGHTS.rating
             + review_score * WEIGHTS.review_volume + spec_score * WEIGHTS.spec_match) \div 100
    IN  [price_score |-> Round1(price_score),
         rating_score |-> Round1(rating_score),
         review_volume_score |-> Round1(review_score),
         spec_match_score |-> Round1(spec_score),
         final_score |-> Round1(final_score)]

SeqMax(seq, default) ==
    IF seq = <<>> THEN default
    ELSE CHOOSE m \in Range(seq) : \A v \in Range(seq) : v <= m

\* score_products: [raised, products]; raised when a score computation
\* raises ZeroDivisionError, which score_products does not catch
score_products(products, intent) ==
    IF products = <<>> THEN [raised |-> FALSE, products |-> <<>>]
    ELSE LET kept == _filter_products(products, intent)
             filtered_products == IF kept = <<>> THEN products ELSE kept
             priced == SelectSeq(filtered_products, LAMBDA p : Truthy(p.price))
             prices == [i \in 1..Len(priced) |-> priced[i].price[1]]
             median2 == IF prices # <<>> THEN Median2(prices) ELSE 2 * 10000
             max_reviews ==
                 SeqMax([i \in 1..Len(filtered_products) |->
                            OrZero(filtered_products[i].review_count)], 1)
         IN  IF \E i \in 1..Len(filtered_products) :
                    PriceScoreRaises(filtered_products[i].price, intent.budget_max, median2)
             THEN [raised |-> TRUE, products |-> <<>>]
             ELSE [raised |-> FALSE,
                   products |->
                       [i \in 1..Len(filtered_products) |->
                           [filtered_products[i] EXCEPT
                               !.scores = Some(_calculate_scores(filtered_products[i], intent,
                                                                 median2, max_reviews))]]]

(***************************************************************************)
(* Scoring Engine under test: score_products applied to listings with      *)
(* missing, zero, negative and out-of-range numbers.                       *)
(***************************************************************************)
MaxScoreLen == 2

ScoreTitles == <<<<"S","l","i","m"," ","F","i","t"," ","J","e","a","n","s"," ","M","e","n","s">>, <<"W","o","m","e","n","s"," ","S","k","i","n","n","y"," ","J","e","a","n","s">>>>

ScoreNumbers ==
    { [price |-> Some(4000),   rating |-> Some(45), review_count |-> Some(200), linked |-> TRUE],
      [price |-> Some(6000),   rating |-> Some(48), review_count |-> Some(5000), linked |-> TRUE],
      [price |-> None,         rating |-> None,     review_count |-> None, linked |-> TRUE],
      [price |-> Some(0),      rating |-> Some(0),  review_count |-> Some(0), linked |-> TRUE],
      [price |-> Some(-4000),  rating |-> Some(-10), review_count |-> Some(-5), linked |-> TRUE],
      [price |-> Some(2000),   rating |-> Some(25), review_count |-> Some(5), linked |-> TRUE],
      [price |-> Some(100000), rating |-> Some(35), review_count |-> Some(1000), linked |-> TRUE],
      [price |-> Some(4000),   rating |-> Some(60), review_count |-> Some(120), linked |-> TRUE],
      [price |-> Some(5000),   rating |-> None,     review_count |-> None, linked |-> TRUE],
      [price |-> Some(100),    rating |-> None,     review_count |-> None, linked |-> TRUE],
      [price |-> Some(4000),   rating |-> Some(45), review_count |-> Some(200), linked |-> FALSE] }

ScoreQueries == {<<"m","e","n","s"," ","j","e","a","n","s"," ","u","n","d","e","r"," ","$","5","0">>, <<"j","e","a","n","s">>}

ScoreIntents ==
    { NoIntent,
      [NoIntent EXCEPT !.budget_max = Some(5000)],
      [NoIntent EXCEPT !.category = <<"j","e","a","n","s">>, !.budget_max = Some(5000)],
      [NoIntent EXCEPT !.budget_max = Some(5000), !.features = <<<<"s","l","i","m">>, <<"m","e","n","s">>>>],
      [NoIntent EXCEPT !.budget_min = Some(6000), !.budget_max = Some(5000),
                       !.brand_preferences = <<<<"E","x","p","r","e","s","s">>>>] }

ScoreInit ==
    /\ h_pc = "input"
    /\ h_query \in ScoreQueries
    /\ h_intent \in ScoreIntents
    /\ \E nums \in ListsUpTo(ScoreNumbers, MaxScoreLen) :
           /\ nums # <<>>
           /\ h_products =
                 [i \in 1..Len(nums) |->
                     [ScrapedProduct(i, ScoreTitles[((i - 1) % 2) + 1], 0, <<"E","x","p","r","e","s","s">>) EXCEPT
                         !.price = nums[i].price, !.rating = nums[i].rating,
                         !.review_count = nums[i].review_count,
                         !.affiliate_url = IF nums[i].linked THEN @ ELSE <<>>]]
    /\ h_perm = <<>>
    /\ h_out = [raised |-> FALSE, products |-> <<>>]
    /\ PipelineIdle
    /\ InventoryIdle

ScoreRun ==
    /\ h_pc = "input"
    /\ h_pc' = "scored"
    /\ h_out' = score_products(h_products, h_intent)
    /\ UNCHANGED <<h_query, h_intent, h_products, h_perm, pvars, ivars>>

\* search_products steps 3 and 5 on a scraped candidate list: the keyword
\* filter, then score_products on what it kept
FilterAndScoreRun ==
    /\ h_pc = "input"
    /\ h_pc' = "filter_scored"
    /\ h_out' = score_products(_filter_by_keywords(h_query, h_products, h_intent), h_intent)
    /\ UNCHANGED <<h_query, h_intent, h_products, h_perm, pvars, ivars>>

ScoreNext == ScoreRun \/ FilterAndScoreRun

(***************************************************************************)
(* Source Registry and the pages the retailers serve.                      *)
(***************************************************************************)
\* number of retailers in FASHION_RETAILERS
RegistrySize == 4

\* list(FASHION_RETAILERS.keys())[:JinaCount] is fetched through the reader
JinaCount == 1

\* list(FASHION_RETAILERS.keys())[JinaCount:HtmlEnd] is fetched as raw HTML
HtmlEnd == 3

RetailerTable ==
    << [key |-> <<"e","x","p","r","e","s","s">>,          name |-> <<"E","x","p","r","e","s","s">>,          domain |-> <<"e","x","p","r","e","s","s",".","c","o","m">>],
       [key |-> <<"u","r","b","a","n","_","o","u","t","f","i","t","t","e","r","s">>, name |-> <<"U","r","b","a","n"," ","O","u","t","f","i","t","t","e","r","s">>, domain |-> <<"u","r","b","a","n","o","u","t","f","i","t","t","e","r","s",".","c","o","m">>],
       [key |-> <<"o","l","d","_","n","a","v","y">>,         name |-> <<"O","l","d"," ","N","a","v","y">>,         domain |-> <<"o","l","d","n","a","v","y",".","g","a","p",".","c","o","m">>],
       [key |-> <<"a","s","o","s">>,             name |-> <<"A","S","O","S">>,             domain |-> <<"a","s","o","s",".","c","o","m">>],
       [key |-> <<"u","s","_","p","o","l","o">>,          name |-> <<"U",".","S","."," ","P","o","l","o"," ","A","s","s","n",".">>,  domain |-> <<"u","s","p","o","l","o","a","s","s","n",".","c","o","m">>],
       [key |-> <<"g","a","r","a","g","e">>,           name |-> <<"G","a","r","a","g","e">>,           domain |-> <<"g","a","r","a","g","e","c","l","o","t","h","i","n","g",".","c","o","m">>] >>

FASHION_RETAILERS == Prefix(RetailerTable, RegistrySize)

\* positions in the registry of the retailers each level fetches
Level1Retailers == 1..Min(JinaCount, Len(FASHION_RETAILERS))

Level2Retailers == (JinaCount + 1)..Min(HtmlEnd, Len(FASHION_RETAILERS))

Attempted == Level1Retailers \cup Level2Retailers

\* one product card of a retailer's page: the price is in cents, 'whole'
\* says the page prints it without decimals
Card(title, price, whole, path, image, desc) ==
    [title |-> title, price |-> price, whole |-> whole, path |-> path,
     image |-> image, desc |-> desc]

\* what each retailer serves: the cards of its search page (status 200) and
\* the cards of the page it serves with an error status
CatalogPages ==
    << [ok    |-> << Card(<<"S","l","i","m"," ","F","i","t"," ","J","e","a","n","s"," ","M","e","n","s">>, 4000, TRUE, <<"/","p","/","1">>, <<>>, <<>>),
                     Card(<<"D","e","s","i","g","n","e","r"," ","D","e","n","i","m"," ","J","a","c","k","e","t">>, 120000, TRUE, <<"/","p","/","2">>, <<>>, <<>>) >>,
        error |-> << Card(<<"C","l","a","s","s","i","c"," ","P","o","l","o"," ","S","h","i","r","t"," ","M","e","n","s">>, 2500, FALSE, <<"/","p","/","3">>, <<>>, <<>>) >>],
       [ok    |-> << Card(<<"S","l","i","m","-","F","i","t"," ","J","e","a","n","s"," ","M","E","N","S">>, 4000, FALSE, <<"/","p","/","1">>, <<"/","i","/","1",".","j","p","g">>,
                          <<"S","t","r","e","t","c","h"," ","d","e","n","i","m"," ","i","n"," ","a"," ","s","l","i","m"," ","c","u","t">>),
                     Card(<<"L","e","a","t","h","e","r"," ","B","e","l","t"," ","M","e","n","s">>, 2000, FALSE, <<"/","p","/","2">>, <<>>, <<>>) >>,
        error |-> << >>],
       [ok    |-> << Card(<<"K","i","d","s"," ","D","e","n","i","m"," ","O","v","e","r","a","l","l","s">>, 3000, FALSE, <<"/","p","/","1">>, <<>>, <<>>),
                     Card(<<"R","e","l","a","x","e","d"," ","D","e","n","i","m"," ","P","a","n","t","s">>, 6000, FALSE, <<"/","p","/","2">>, <<>>, <<>>) >>,
        error |-> << Card(<<"P","o","p","u","l","a","r"," ","D","e","n","i","m"," ","P","i","c","k","s"," ","T","o","d","a","y">>, 3500, FALSE, <<"/","p","/","9">>, <<>>, <<>>) >>],
       [ok    |-> << Card(<<"W","o","m","e","n","s"," ","S","k","i","n","n","y"," ","J","e","a","n","s">>, 6000, FALSE, <<"/","p","/","1">>, <<>>, <<>>) >>,
        error |-> << >>],
       [ok    |-> << Card(<<"C","l","a","s","s","i","c"," ","P","o","l","o"," ","S","h","i","r","t"," ","M","e","n","s">>, 2500, FALSE, <<"/","p","/","1">>, <<>>, <<>>) >>,
        error |-> << >>],
       [ok    |-> << >>,
        error |-> << >>] >>

\* the outcomes of one retailer's fetch
\* "exception" is a timeout or any error raised while fetching or while
\* extracting: the task's try/except treats them alike
FetchOutcomes == {"ok", "non200", "exception"}

\* f"https://placehold.co/300x300/1a1a2e/eaeaea?text={initial}"
placeholder_image(retailer_name) ==
    <<"h","t","t","p","s",":","/","/","p","l","a","c","e","h","o","l","d",".","c","o","/","3","0","0","x","3","0","0","/","1","a","1","a","2","e","/","e","a","e","a","e","a","?","t","e","x","t","=">> \o <<retailer_name[1]>>

\* len(title.split())
RECURSIVE WordCount(_, _, _)
WordCount(s, i, in_word) ==
    IF i > Len(s) THEN 0
    ELSE IF s[i] = " " THEN WordCount(s, i + 1, FALSE)
    ELSE (IF in_word THEN 0 ELSE 1) + WordCount(s, i + 1, TRUE)

(***************************************************************************)
(* ScrapingService._extract_products_regex (level 1)                       *)
(***************************************************************************)
skip_patterns ==
    <<<<"s","i","g","n"," ","i","n">>, <<"c","a","r","t">>, <<"m","e","n","u">>, <<"h","o","m","e">>, <<"a","c","c","o","u","n","t">>, <<"s","e","a","r","c","h">>, <<"f","i","l","t","e","r">>,
      <<"l","o","g","i","n">>, <<"r","e","g","i","s","t","e","r">>, <<"w","i","s","h","l","i","s","t">>, <<"h","e","l","p">>, <<"c","o","n","t","a","c","t">>, <<"a","b","o","u","t">>,
      <<"s","h","i","p","p","i","n","g">>, <<"r","e","t","u","r","n","s">>, <<"p","r","i","v","a","c","y">>, <<"t","e","r","m","s">>, <<"n","e","w","s","l","e","t","t","e","r">>, <<"s","u","b","s","c","r","i","b","e">>,
      <<"s","h","o","p"," ","a","l","l">>, <<"v","i","e","w"," ","a","l","l">>, <<"s","e","e"," ","m","o","r","e">>, <<"l","o","a","d"," ","m","o","r","e">>, <<"n","e","x","t">>, <<"p","r","e","v","i","o","u","s">>,
      <<"i","m","a","g","e">>, <<"l","o","g","o">>, <<"i","c","o","n">>, <<"b","a","n","n","e","r">>, <<"h","e","a","d","e","r">>, <<"f","o","o","t","e","r">>, <<"n","a","v">>,
      <<"n","l","i","d","=">>, <<"d","e","t","a","i","l","s">>, <<"d","i","s","c","l","a","i","m","e","r">>, <<"m","o","d","a","l">>, <<"p","o","p","u","p">>, <<"w","o","m","e","n","'","s">>,
      <<"b","u","y"," ","m","o","r","e">>, <<"s","a","v","e"," ","m","o","r","e">>, <<"c","o","l","l","e","c","t","i","o","n">>, <<"n","e","w"," ","a","r","r","i","v","a","l","s">>, <<"w","h","a","t","'","s"," ","h","o","t">>,
      <<"w","e","d","d","i","n","g"," ","s","h","o","p">>, <<"b","o","d","y"," ","c","o","n","t","o","u","r">>, <<"e","d","i","t","o","r"," ","c","o","l","l","e","c","t","i","o","n">>, <<"e","v","e","r","y","d","a","y"," ","p","e","r","f","o","r","m","a","n","c","e">>,
      <<"s","h","o","p"," ","b","y">>, <<"b","e","s","t"," ","s","e","l","l","e","r","s">>, <<"t","r","e","n","d","i","n","g">>, <<"s","a","l","e"," ","s","h","o","p">>,
      <<"y","o","u"," ","s","e","a","r","c","h","e","d"," ","f","o","r">>, <<"s","e","a","r","c","h"," ","r","e","s","u","l","t","s">>, <<"n","o"," ","r","e","s","u","l","t","s">>, <<"t","o","p"," ","r","a","t","e","d">>,
      <<"b","e","s","t"," ","s","e","l","l","e","r">>, <<"m","o","s","t"," ","p","o","p","u","l","a","r">>, <<"r","e","c","e","n","t","l","y"," ","v","i","e","w","e","d">>, <<"r","e","c","o","m","m","e","n","d","e","d">>,
      <<"q","u","i","c","k"," ","v","i","e","w">>, <<"a","d","d"," ","t","o"," ","c","a","r","t">>, <<"a","d","d"," ","t","o"," ","b","a","g">>, <<"s","i","z","e"," ","g","u","i","d","e">>,
      <<"f","r","e","e"," ","s","h","i","p","p","i","n","g">>, <<"f","r","e","e"," ","r","e","t","u","r","n","s">>, <<"c","u","s","t","o","m","e","r"," ","r","e","v","i","e","w","s">>>>

\* the third of category_patterns; the first two match titles of at most two
\* words, which the link pattern's 15 characters and the cards here exclude
IsCategoryTitle(title_lower) ==
    \E k \in 1..5 :
        StartsWith(title_lower,
                   <<<<"a","l","l">>, <<"v","i","e","w"," ","a","l","l">>, <<"s","e","e"," ","a","l","l">>, <<"s","h","o","p"," ","n","o","w">>, <<"b","r","o","w","s","e">>>>[k])

\* whether the loop over the links of the page makes a product of the card:
\* seen_titles holds the title keys of the products made so far
RegexKeeps(card, seen_titles) ==
    LET title_lower == Lower(card.title)
        title_key == Fingerprint(card.title)
        word_count == WordCount(card.title, 1, FALSE)
    IN  /\ Len(card.title) >= 15 /\ Len(card.title) <= 100
        /\ ~AnyIn(skip_patterns, title_lower)
        /\ ~IsCategoryTitle(title_lower)
        /\ ~Contains(title_lower, <<"h","t","t","p">>)
        /\ \A i \in 1..Len(card.title) : card.title[i] \notin {"%", "="}
        /\ word_count >= 2 /\ word_count <= 15
        /\ title_key \notin seen_titles /\ Len(title_key) >= 10
        \* price_pattern needs two to four digits of dollars
        /\ card.price >= 1000 /\ card.price < 1000000
        /\ ~(card.price < 1000 \/ card.price > 300000)

\* the URL of the card's link as link_pattern captures it: the reader
\* prints a link of the page itself as https://<domain><path>, a link to
\* elsewhere with the address it has
LinkUrl(card, retailer) ==
    IF StartsWith(card.path, <<"h","t","t","p">>) THEN card.path
    ELSE <<"h","t","t","p","s",":","/","/">> \o retailer.domain \o card.path

\* "Ensure URL is absolute and valid": the URL the product gets
ProductUrl(link, domain) ==
    LET url == IF ~StartsWith(link, <<"h","t","t","p">>) THEN <<"h","t","t","p","s",":","/","/">> \o domain \o link ELSE link
    IN  IF ~Contains(Lower(url), domain) THEN <<"h","t","t","p","s",":","/","/">> \o domain ELSE url

RECURSIVE RegexLoop(_, _, _, _, _)
RegexLoop(cards, i, seen_titles, found, retailer) ==
    IF i > Len(cards) \/ Len(found) >= 12 THEN found
    ELSE IF RegexKeeps(cards[i], seen_titles)
    THEN LET url == ProductUrl(LinkUrl(cards[i], retailer), retailer.domain) IN
         RegexLoop(cards, i + 1, seen_titles \cup {Fingerprint(cards[i].title)},
                   Append(found,
                          Product(url, cards[i].title,
                                  cards[i].title \o <<" ","f","r","o","m"," ">> \o retailer.name,
                                  Some(cards[i].price), None, None,
                                  placeholder_image(retailer.name), url, retailer.name)),
                   retailer)
    ELSE RegexLoop(cards, i + 1, seen_titles, found, retailer)

_extract_products_regex(content, retailer) ==
    IF content = <<>> THEN <<>> ELSE RegexLoop(content, 1, {}, <<>>, retailer)

\* the status check dropped: the body of an error response is parsed too
JinaScrapeAnyStatus(i, outcome) ==
    IF outcome = "exception" THEN <<>>
    ELSE _extract_products_regex(IF outcome = "ok" THEN CatalogPages[i].ok
                                 ELSE CatalogPages[i].error,
                                 FASHION_RETAILERS[i])

\* what the task of retailer i returns, given how its fetch went
_jina_scrape_retailer(i, outcome) ==
    IF outcome = "exception" THEN <<>>
    ELSE IF outcome = "non200" THEN <<>>
    ELSE _extract_products_regex(CatalogPages[i].ok, FASHION_RETAILERS[i])

(***************************************************************************)
(* ScrapingService._scrape_single_store (level 2)                          *)
(***************************************************************************)
skip_words ==
    <<<<"y","o","u"," ","s","e","a","r","c","h","e","d">>, <<"s","e","a","r","c","h"," ","r","e","s","u","l","t","s">>, <<"n","o"," ","r","e","s","u","l","t","s">>,
      <<"t","o","p"," ","r","a","t","e","d">>, <<"b","e","s","t"," ","s","e","l","l","e","r">>, <<"m","o","s","t"," ","p","o","p","u","l","a","r">>,
      <<"q","u","i","c","k"," ","v","i","e","w">>, <<"a","d","d"," ","t","o"," ","c","a","r","t">>, <<"a","d","d"," ","t","o"," ","b","a","g">>,
      <<"s","h","o","p"," ","n","o","w">>, <<"v","i","e","w"," ","a","l","l">>, <<"s","e","e"," ","m","o","r","e">>, <<"l","o","a","d"," ","m","o","r","e">>,
      <<"s","i","g","n"," ","i","n">>, <<"l","o","g","i","n">>, <<"a","c","c","o","u","n","t">>, <<"w","i","s","h","l","i","s","t">>>>

\* _parse_price on the price text of a card, in cents: a text with two
\* decimals is read as it is, a whole number of four or five digits is read
\* as a number of cents
_parse_price(card) ==
    IF ~card.whole THEN card.price
    ELSE LET num == card.price \div 100 IN
         IF num >= 1000 /\ num < 100000 THEN num ELSE num * 100

StoreKeeps(card) ==
    LET title_lower == Lower(card.title) IN
    /\ Len(card.title) >= 8
    /\ ~AnyIn(skip_words, title_lower)
    /\ WordCount(card.title, 1, FALSE) >= 3
    /\ _parse_price(card) > 0

StoreProduct(card, retailer) ==
    LET link == <<"h","t","t","p","s",":","/","/">> \o retailer.domain \o card.path
        description ==
            IF Len(card.desc) > 10 /\ Lower(card.desc) # Lower(card.title)
            THEN Prefix(card.desc, 200)
            ELSE card.title \o <<" ","f","r","o","m"," ">> \o retailer.name
        img == IF card.image = <<>> THEN placeholder_image(retailer.name)
               ELSE <<"h","t","t","p","s",":","/","/">> \o retailer.domain \o card.image
    IN  Product(link, card.title, description, Some(_parse_price(card)), None, None,
                img, link, retailer.name)

\* what the task of retailer i returns, given how its fetch went
_scrape_single_store(i, outcome) ==
    IF outcome # "ok" THEN <<>>
    ELSE LET items == Prefix(CatalogPages[i].ok, 15)
             kept == SelectSeq(items, StoreKeeps)
         IN  [k \in 1..Len(kept) |-> StoreProduct(kept[k], FASHION_RETAILERS[i])]

(***************************************************************************)
(* ScrapingService._level1_jina_scrape, _level2_html_scrape                *)
(***************************************************************************)
\* the concatenation, in the order of idxs, of the lists by_idx[i]
RECURSIVE Extend(_, _, _)
Extend(by_idx, lo, hi) ==
    IF lo > hi THEN <<>> ELSE by_idx[lo] \o Extend(by_idx, lo + 1, hi)

\* outcomes: the outcome of the fetch of every attempted retailer
_level1_jina_scrape(outcomes) ==
    LET results == [i \in Level1Retailers |-> _jina_scrape_retailer(i, outcomes[i])] IN
    [products |-> Extend(results, 1, Min(JinaCount, Len(FASHION_RETAILERS))),
     sources  |-> {<<"j","i","n","a","_">> \o FASHION_RETAILERS[i].key : i \in {j \in Level1Retailers : results[j] # <<>>}}]

_level2_html_scrape(outcomes) ==
    LET results == [i \in Level2Retailers |-> _scrape_single_store(i, outcomes[i])] IN
    [products |-> Extend(results, JinaCount + 1, Min(HtmlEnd, Len(FASHION_RETAILERS))),
     sources  |-> {FASHION_RETAILERS[i].key : i \in {j \in Level2Retailers : results[j] # <<>>}}]

(***************************************************************************)
(* ScrapingService._sort_products                                          *)
(***************************************************************************)
PREMIUM_RETAILERS ==
    <<<<"n","o","r","d","s","t","r","o","m">>, <<"s","a","k","s">>, <<"f","a","r","f","e","t","c","h">>, <<"r","e","v","o","l","v","e">>, <<"r","e","f","o","r","m","a","t","i","o","n">>,
      <<"m","a","d","e","w","e","l","l">>, <<"a","n","t","h","r","o","p","o","l","o","g","i","e">>, <<"a","r","i","t","z","i","a">>, <<"s","h","o","p","b","o","p">>, <<"l","u","l","u","l","e","m","o","n">>>>

\* the products the first loop keeps: price within $5..$1000, no garbage title
SortKeeps(p) ==
    LET price == OrZero(p.price)
        title == Lower(p.title)
    IN  /\ ~(price > 100000 \/ price < 500)
        /\ ~(Contains(title, <<"a","c","t","i","v","a","t","i","n","g"," ","t","h","i","s"," ","e","l","e","m","e","n","t">>) \/ Contains(title, <<"j","a","v","a","s","c","r","i","p","t">>))

\* sort_key, in hundredths
sort_key(p) ==
    LET price == OrZero(p.price) IN
    - ( (IF p.image_url # <<>> /\ ~Contains(p.image_url, <<"p","l","a","c","e","h","o","l","d">>) THEN 50000 ELSE 0)
      + (IF 1500 <= price /\ price <= 30000 THEN 10000
         ELSE IF 1000 <= price /\ price <= 50000 THEN 5000 ELSE 0)
      + (IF Truthy(p.rating) THEN 8000 + p.rating[1] * 150 ELSE 0)
      + (IF Truthy(p.review_count) THEN Min(4000, p.review_count[1]) ELSE 0)
      + (IF AnyIn(PREMIUM_RETAILERS, Lower(p.source)) THEN 15000 ELSE 0) )

_sort_products(products) == StableSort(SelectSeq(products, SortKeeps), sort_key)

(***************************************************************************)
(* ScrapingService.search_and_scrape                                       *)
(***************************************************************************)
search_and_scrape(outcomes) ==
    LET jina == _level1_jina_scrape(outcomes)
        html == _level2_html_scrape(outcomes)
        all_products == jina.products \o html.products
        sources == jina.sources \cup html.sources
        unique_products == _sort_products(_deduplicate(all_products))
    \* 'source' is ", ".join(set(sources)): the set of the labels joined
    IN  [products |-> unique_products,
         total_found |-> Len(unique_products),
         source |-> IF sources # {} THEN sources ELSE {<<"s","c","r","a","p","e","d">>}]

(***************************************************************************)
(* RAGService._get_demo_products                                           *)
(***************************************************************************)
DemoProduct(id, title, description, price, rating, review_count, brand, category, image_url, affiliate_url) ==
    [Product(id, title, description, Some(price), Some(rating), Some(review_count),
             image_url, affiliate_url, <<"d","e","m","o">>)
        EXCEPT !.brand = brand, !.category = category]

demo_products(intent) ==
    [earbuds |->
        << DemoProduct(<<"d","e","m","o","-","1">>, <<"S","o","n","y"," ","W","F","-","1","0","0","0","X","M","5"," ","W","i","r","e","l","e","s","s"," ","E","a","r","b","u","d","s">>,
                       <<"I","n","d","u","s","t","r","y","-","l","e","a","d","i","n","g"," ","n","o","i","s","e"," ","c","a","n","c","e","l","l","a","t","i","o","n"," ","w","i","t","h"," ","e","x","c","e","p","t","i","o","n","a","l"," ","s","o","u","n","d"," ","q","u","a","l","i","t","y">>,
                       27999, 47, 2500, <<"S","o","n","y">>, <<"e","a","r","b","u","d","s">>,
                       <<"h","t","t","p","s",":","/","/","p","l","a","c","e","h","o","l","d",".","c","o","/","4","0","0","x","4","0","0","?","t","e","x","t","=","S","o","n","y","+","X","M","5">>, <<"h","t","t","p","s",":","/","/","e","x","a","m","p","l","e",".","c","o","m","/","s","o","n","y","-","x","m","5">>),
           DemoProduct(<<"d","e","m","o","-","2">>, <<"A","p","p","l","e"," ","A","i","r","P","o","d","s"," ","P","r","o"," ","2","n","d"," ","G","e","n","e","r","a","t","i","o","n">>,
                       <<"A","d","a","p","t","i","v","e"," ","t","r","a","n","s","p","a","r","e","n","c","y",","," ","p","e","r","s","o","n","a","l","i","z","e","d"," ","s","p","a","t","i","a","l"," ","a","u","d","i","o">>,
                       24900, 48, 15000, <<"A","p","p","l","e">>, <<"e","a","r","b","u","d","s">>,
                       <<"h","t","t","p","s",":","/","/","p","l","a","c","e","h","o","l","d",".","c","o","/","4","0","0","x","4","0","0","?","t","e","x","t","=","A","i","r","P","o","d","s","+","P","r","o">>, <<"h","t","t","p","s",":","/","/","e","x","a","m","p","l","e",".","c","o","m","/","a","i","r","p","o","d","s","-","p","r","o">>),
           DemoProduct(<<"d","e","m","o","-","3">>, <<"S","a","m","s","u","n","g"," ","G","a","l","a","x","y"," ","B","u","d","s","2"," ","P","r","o">>,
                       <<"2","4","-","b","i","t"," ","H","i","-","F","i"," ","a","u","d","i","o",","," ","i","n","t","e","l","l","i","g","e","n","t"," ","A","N","C">>,
                       18999, 45, 3200, <<"S","a","m","s","u","n","g">>, <<"e","a","r","b","u","d","s">>,
                       <<"h","t","t","p","s",":","/","/","p","l","a","c","e","h","o","l","d",".","c","o","/","4","0","0","x","4","0","0","?","t","e","x","t","=","G","a","l","a","x","y","+","B","u","d","s">>, <<"h","t","t","p","s",":","/","/","e","x","a","m","p","l","e",".","c","o","m","/","g","a","l","a","x","y","-","b","u","d","s">>),
           DemoProduct(<<"d","e","m","o","-","4">>, <<"J","a","b","r","a"," ","E","l","i","t","e"," ","8","5","t"," ","T","r","u","e"," ","W","i","r","e","l","e","s","s">>,
                       <<"A","d","v","a","n","c","e","d"," ","A","N","C",","," ","c","u","s","t","o","m","i","z","a","b","l","e"," ","s","o","u","n","d">>,
                       14999, 44, 1800, <<"J","a","b","r","a">>, <<"e","a","r","b","u","d","s">>,
                       <<"h","t","t","p","s",":","/","/","p","l","a","c","e","h","o","l","d",".","c","o","/","4","0","0","x","4","0","0","?","t","e","x","t","=","J","a","b","r","a","+","E","l","i","t","e">>, <<"h","t","t","p","s",":","/","/","e","x","a","m","p","l","e",".","c","o","m","/","j","a","b","r","a","-","e","l","i","t","e">>),
           DemoProduct(<<"d","e","m","o","-","5">>, <<"A","n","k","e","r"," ","S","o","u","n","d","c","o","r","e"," ","L","i","b","e","r","t","y"," ","4">>,
                       <<"A","C","A","A"," ","3",".","0"," ","d","r","i","v","e","r","s",","," ","h","e","a","r","t"," ","r","a","t","e"," ","s","e","n","s","o","r">>,
                       9999, 43, 5600, <<"A","n","k","e","r">>, <<"e","a","r","b","u","d","s">>,
                       <<"h","t","t","p","s",":","/","/","p","l","a","c","e","h","o","l","d",".","c","o","/","4","0","0","x","4","0","0","?","t","e","x","t","=","S","o","u","n","d","c","o","r","e">>, <<"h","t","t","p","s",":","/","/","e","x","a","m","p","l","e",".","c","o","m","/","s","o","u","n","d","c","o","r","e">>) >>,
     default |->
        << DemoProduct(<<"d","e","m","o","-","d","e","f","a","u","l","t","-","1">>, <<"P","o","p","u","l","a","r"," ","P","r","o","d","u","c","t"," ","1">>,
                       <<"A"," ","h","i","g","h","l","y"," ","r","a","t","e","d"," ","p","r","o","d","u","c","t"," ","i","n"," ","t","h","i","s"," ","c","a","t","e","g","o","r","y">>,
                       14999, 45, 1000, <<>>,
                       IF intent.category # <<>> THEN intent.category ELSE <<"g","e","n","e","r","a","l">>,
                       <<"h","t","t","p","s",":","/","/","p","l","a","c","e","h","o","l","d",".","c","o","/","4","0","0","x","4","0","0","?","t","e","x","t","=","P","r","o","d","u","c","t","+","1">>, <<"h","t","t","p","s",":","/","/","e","x","a","m","p","l","e",".","c","o","m","/","p","r","o","d","u","c","t","-","1">>),
           DemoProduct(<<"d","e","m","o","-","d","e","f","a","u","l","t","-","2">>, <<"P","o","p","u","l","a","r"," ","P","r","o","d","u","c","t"," ","2">>,
                       <<"A","n","o","t","h","e","r"," ","e","x","c","e","l","l","e","n","t"," ","o","p","t","i","o","n">>,
                       9999, 43, 800, <<>>,
                       IF intent.category # <<>> THEN intent.category ELSE <<"g","e","n","e","r","a","l">>,
                       <<"h","t","t","p","s",":","/","/","p","l","a","c","e","h","o","l","d",".","c","o","/","4","0","0","x","4","0","0","?","t","e","x","t","=","P","r","o","d","u","c","t","+","2">>, <<"h","t","t","p","s",":","/","/","e","x","a","m","p","l","e",".","c","o","m","/","p","r","o","d","u","c","t","-","2">>) >>]

\* the budget filter dropped: the sample set is returned whole
DemoProductsAnyPrice(intent) ==
    IF intent.category = <<"e","a","r","b","u","d","s">> THEN demo_products(intent).earbuds
    ELSE demo_products(intent).default

_get_demo_products(intent) ==
    LET listed == IF intent.category = <<"e","a","r","b","u","d","s">> THEN demo_products(intent).earbuds
                  ELSE demo_products(intent).default
    IN  IF Truthy(intent.budget_max)
        THEN SelectSeq(listed, LAMBDA p : OrZero(p.price) <= intent.budget_max[1])
        ELSE listed

(***************************************************************************)
(* The similarity index: the Qdrant collection "products"                  *)
(***************************************************************************)
\* LocalEmbeddingService.EMBEDDING_DIM
EMBEDDING_DIM == 384

\* JinaEmbeddingService.EMBEDDING_DIM, the dimension of a collection written
\* by the earlier embedder
StaleDim == 1024

\* RAGService.CONFIDENCE_THRESHOLD, in hundredths
CONFIDENCE_THRESHOLD == 70

\* the payload _index_products stores for a product
Payload(product) ==
    [id |-> product.id, title |-> product.title, description |-> product.description,
     price |-> product.price, rating |-> product.rating,
     review_count |-> product.review_count, image_url |-> product.image_url,
     affiliate_url |-> product.affiliate_url, source |-> product.source,
     category |-> product.category,
     brand |-> <<>>, scores |-> None, vector_score |-> None]

\* upsert: a point whose id (uuid5 of the product id) is stored is replaced
\* in place, any other is added
RECURSIVE Upsert(_, _)
Upsert(stored, points) ==
    IF points = <<>> THEN stored
    ELSE LET pt == points[1]
             at == {i \in 1..Len(stored) : stored[i].id = pt.id}
             next == IF at = {} THEN Append(stored, pt)
                     ELSE [i \in 1..Len(stored) |-> IF i \in at THEN pt ELSE stored[i]]
         IN  Upsert(next, SubSeq(points, 2, Len(points)))

NoCollection == [exists |-> FALSE, dim |-> 0, points |-> <<>>]

\* the points earlier requests indexed: listings of the retailers' pages as
\* the extractors and _index_products made them
IndexedEarlier ==
    LET express == _extract_products_regex(CatalogPages[1].ok, RetailerTable[1])
        urban == StoreProduct(CatalogPages[2].ok[1], RetailerTable[2])
        old_navy == [k \in 1..2 |-> StoreProduct(CatalogPages[3].ok[k], RetailerTable[3])]
    IN  Upsert(<<>>, <<Payload(express[1]), Payload(urban), Payload(old_navy[2]),
                       Payload(old_navy[1])>>)

\* the condition of the query filter built from the intent
MatchesFilter(payload, intent) ==
    /\ intent.category # <<>> => payload.category = intent.category
    /\ Truthy(intent.budget_max) =>
           (payload.price # None /\ payload.price[1] <= intent.budget_max[1])

\* query_points(collection, query_filter, limit, offset=0): the scored
\* points, best first; k says how many of the matching points are similar to
\* the query
query_points(collection, intent, limit, k) ==
    LET matching == SelectSeq(collection.points, LAMBDA p : MatchesFilter(p, intent))
        returned == Prefix(matching, limit)
    IN  [i \in 1..Len(returned) |->
            [score |-> IF i > k THEN 65 ELSE IF i = 1 THEN 90 ELSE 70,
             payload |-> returned[i]]]

SearchOutcomes == {"embed_none", "error", "answer"}

\* _search_vector_db keeping only the points above the threshold
SearchAboveThreshold(collection, intent, limit, outcome, k) ==
    IF outcome = "embed_none" THEN <<>>
    ELSE IF outcome = "error" \/ ~collection.exists \/ collection.dim # EMBEDDING_DIM
    THEN <<>>
    ELSE LET points == query_points(collection, intent, limit, k)
             good == SelectSeq(points, LAMBDA r : r.score > CONFIDENCE_THRESHOLD)
         IN  [i \in 1..Len(good) |-> [good[i].payload EXCEPT !.vector_score = Some(good[i].score)]]

\* _search_vector_db: outcome says how the embedder and the index behave
_search_vector_db(collection, intent, limit, outcome, k) ==
    IF outcome = "embed_none" THEN <<>>
    ELSE IF outcome = "error" \/ ~collection.exists \/ collection.dim # EMBEDDING_DIM
    THEN <<>>
    ELSE LET points == query_points(collection, intent, limit, k)
             good == SelectSeq(points, LAMBDA r : r.score >= CONFIDENCE_THRESHOLD)
         IN  [i \in 1..Len(good) |-> [good[i].payload EXCEPT !.vector_score = Some(good[i].score)]]

IndexOutcomes == {"ok", "embed_error", "embed_empty", "upsert_error"}

\* _index_products without the check of the collection before the upsert
IndexProductsNoEnsure(collection, products, outcome) ==
    IF outcome \in {"embed_error", "embed_empty", "upsert_error"} THEN collection
    ELSE [collection EXCEPT
             !.points = Upsert(collection.points,
                               [i \in 1..Len(products) |-> Payload(products[i])])]

\* _index_products from the point where embed_texts has returned
\* embeddings: the collection it leaves
_index_products(collection, products, outcome) ==
    IF outcome \in {"embed_error", "embed_empty"} THEN collection
    ELSE LET points == [i \in 1..Len(products) |-> Payload(products[i])]
             ready == IF collection.exists /\ collection.dim = EMBEDDING_DIM
                      THEN collection
                      ELSE [exists |-> TRUE, dim |-> EMBEDDING_DIM, points |-> <<>>]
         IN  IF outcome = "upsert_error" THEN ready
             ELSE [ready EXCEPT !.points = Upsert(ready.points, points)]

(***************************************************************************)
(* RAGService._generate_mini_summaries                                     *)
(***************************************************************************)
LlmOutcomes == {"ok", "error"}

\* the text the LLM writes for a product
SummaryText == <<"A"," ","v","e","r","s","a","t","i","l","e"," ","p","i","c","k"," ","f","o","r"," ","e","v","e","r","y","d","a","y"," ","w","e","a","r">>

NeedsSummary(p) ==
    \/ p.description = <<>>
    \/ Len(p.description) < 20
    \/ Lower(p.description) = Lower(p.title)
    \/ StartsWith(p.description, p.title)

_generate_mini_summaries(listed, outcome) ==
    IF outcome = "error" THEN listed
    ELSE [i \in 1..Len(listed) |->
             IF NeedsSummary(listed[i])
             THEN [listed[i] EXCEPT !.description = Prefix(SummaryText, 200)]
             ELSE listed[i]]

(***************************************************************************)
(* RAGService.search_products: one request, and the indexing task it       *)
(* leaves behind.                                                          *)
(***************************************************************************)
\* the max_results values requested
MaxResultsValues == {1, 5}

Requests ==
    { [query |-> <<"m","e","n","s"," ","j","e","a","n","s">>, intent |-> NoIntent],
      [query |-> <<"j","e","a","n","s"," ","u","n","d","e","r"," ","$","5","0">>,
       intent |-> [NoIntent EXCEPT !.category = <<"j","e","a","n","s">>, !.budget_max = Some(5000)]],
      [query |-> <<"w","i","r","e","l","e","s","s"," ","e","a","r","b","u","d","s">>,
       intent |-> [NoIntent EXCEPT !.category = <<"e","a","r","b","u","d","s">>, !.budget_max = Some(20000),
                                   !.features = <<<<"w","i","r","e","l","e","s","s">>>>]] }

Collections ==
    { NoCollection,
      [exists |-> TRUE, dim |-> EMBEDDING_DIM, points |-> IndexedEarlier],
      [exists |-> TRUE, dim |-> StaleDim, points |-> IndexedEarlier] }

Init ==
    /\ HarnessIdle
    /\ InventoryIdle
    /\ \E r \in Requests : sp_query = r.query /\ parsed_intent = r.intent
    /\ max_results \in MaxResultsValues
    /\ llm \in {"none", "gemini", "openai"}
    /\ pc = "start"
    /\ qdrant \in Collections
    /\ vector_results = <<>>
    /\ task = [i \in Attempted |-> "idle"]
    /\ scraped_products = <<>>
    /\ sp_filtered = <<>>
    /\ sp_products = <<>>
    /\ data_source = {<<"s","c","r","a","p","e","d">>}
    /\ scored_products = <<>>
    /\ top_products = <<>>
    /\ result = NoResult
    /\ index_task = [state |-> "none", products |-> <<>>, outcome |-> "none"]

\* the dict search_products returns
Response(top, scored, label) ==
    [products |-> top,
     total_found |-> Len(scored),
     data_source |-> label,
     confidence_level |-> IF label = {<<"i","n","d","e","x","e","d">>} THEN "high" ELSE "medium",
     disclaimer |-> IF label = {<<"i","n","d","e","x","e","d">>} THEN <<>> ELSE <<label>>]

\* the threshold compared with >= instead of >
CacheIsEnoughAtLeast3(found) == Len(found) >= 3

\* len(vector_results) > 3
CacheIsEnough(found) == Len(found) > 3

\* search_products from the demo fallback to the return, or to the await of
\* the summary call: candidates and label are 'products' and 'data_source'
\* as the cache and scrape steps left them
ScoreAndReturn(candidates, label) ==
    LET demo == candidates = <<>>
        source_label == IF demo THEN {<<"d","e","m","o">>} ELSE label
    IN
    \E to_score \in {IF demo THEN _get_demo_products(parsed_intent) ELSE candidates} :
    \E scoring \in {score_products(to_score, parsed_intent)} :
    \E ranked \in {StableSort(scoring.products, LAMBDA p : - p.scores[1].final_score)} :
    \E top \in {Prefix(ranked, max_results)} :
        /\ sp_products' = to_score
        /\ data_source' = source_label
        /\ IF scoring.raised
           THEN /\ pc' = "raised"
                /\ UNCHANGED <<scored_products, top_products, result>>
           ELSE /\ scored_products' = ranked
                /\ IF top # <<>> /\ llm = "openai" /\ \E i \in 1..Len(top) : NeedsSummary(top[i])
                   THEN \* resp = await self.openai_client.chat.completions.create(...)
                        /\ pc' = "summarizing"
                        /\ top_products' = top
                        /\ UNCHANGED result
                   ELSE \E outcome \in LlmOutcomes :
                        \E final \in {IF top # <<>> /\ llm = "gemini"
                                      THEN _generate_mini_summaries(top, outcome)
                                      ELSE top} :
                            /\ pc' = "done"
                            /\ top_products' = final
                            /\ result' = Response(final, ranked, source_label)

\* STEP 1: the cache lookup returns; with enough hits the request goes on to
\* scoring, otherwise search_and_scrape starts the fetch task of every
\* attempted retailer
CacheLookup ==
    /\ pc = "start"
    /\ \E outcome \in SearchOutcomes, k \in 0..Len(qdrant.points) :
           /\ outcome # "answer" => k = 0
           /\ \E found \in {_search_vector_db(qdrant, parsed_intent, max_results + 5, outcome, k)} :
              /\ vector_results' = found
              /\ IF CacheIsEnough(found)
                 THEN /\ ScoreAndReturn(found, {<<"i","n","d","e","x","e","d">>})
                      /\ UNCHANGED task
                 ELSE /\ pc' = "scraping"
                      /\ task' = [i \in Attempted |-> "pending"]
                      /\ UNCHANGED <<sp_products, data_source, scored_products, top_products, result>>
    /\ UNCHANGED <<sp_query, parsed_intent, max_results, llm, qdrant, scraped_products,
                   sp_filtered, index_task, hvars, ivars>>

\* the fetch task of one retailer ends
SourceComplete(i) ==
    /\ pc = "scraping"
    /\ task[i] = "pending"
    /\ \E outcome \in FetchOutcomes : task' = [task EXCEPT ![i] = outcome]
    /\ UNCHANGED <<sp_query, parsed_intent, max_results, llm, pc, qdrant, vector_results,
                   scraped_products, sp_filtered, sp_products, data_source,
                   scored_products, top_products, result, index_task, hvars, ivars>>

\* ScrapeReturn indexing everything the scrape brought back
ScrapeReturnIndexAll ==
    /\ pc = "scraping"
    /\ \A i \in Attempted : task[i] # "pending"
    /\ \E scrape_data \in {search_and_scrape(task)} :
       \E kept \in {IF scrape_data.products # <<>>
                    THEN _filter_by_keywords(sp_query, scrape_data.products, parsed_intent)
                    ELSE <<>>} :
       LET label == IF scrape_data.products # <<>> THEN scrape_data.source ELSE {<<"s","c","r","a","p","e","d">>}
       IN  /\ scraped_products' = scrape_data.products
           /\ sp_filtered' = kept
           /\ index_task' = IF scrape_data.products # <<>>
                            THEN [state |-> "scheduled", products |-> scrape_data.products,
                                  outcome |-> "none"]
                            ELSE index_task
           /\ ScoreAndReturn(IF vector_results # <<>> THEN kept \o vector_results ELSE kept, label)
    /\ UNCHANGED <<sp_query, parsed_intent, max_results, llm, qdrant, vector_results, task, hvars, ivars>>

\* both gathers are complete: search_and_scrape returns and search_products
\* runs on to the return or to the await of the summary call
ScrapeReturn ==
    /\ pc = "scraping"
    /\ \A i \in Attempted : task[i] # "pending"
    /\ \E scrape_data \in {search_and_scrape(task)} :
       \E kept \in {IF scrape_data.products # <<>>
                    THEN _filter_by_keywords(sp_query, scrape_data.products, parsed_intent)
                    ELSE <<>>} :
       LET label == IF scrape_data.products # <<>> THEN scrape_data.source ELSE {<<"s","c","r","a","p","e","d">>}
       IN  /\ scraped_products' = scrape_data.products
           /\ sp_filtered' = kept
           /\ index_task' = IF kept # <<>> THEN [state |-> "scheduled", products |-> kept, outcome |-> "none"]
                            ELSE index_task
           /\ ScoreAndReturn(IF vector_results # <<>> THEN kept \o vector_results ELSE kept, label)
    /\ UNCHANGED <<sp_query, parsed_intent, max_results, llm, qdrant, vector_results, task, hvars, ivars>>

\* the awaited summary call of the OpenAI client returns or raises
SummariesReturn ==
    /\ pc = "summarizing"
    /\ \E outcome \in LlmOutcomes :
           LET final == _generate_mini_summaries(top_products, outcome) IN
           /\ top_products' = final
           /\ result' = Response(final, scored_products, data_source)
    /\ pc' = "done"
    /\ UNCHANGED <<sp_query, parsed_intent, max_results, llm, qdrant, vector_results, task,
                   scraped_products, sp_filtered, sp_products, data_source,
                   scored_products, index_task, hvars, ivars>>

\* the product dicts of the indexing task are the ones the request goes on
\* to change: a description the summary step rewrote is the one indexed
AsNow(p) ==
    LET same == {i \in 1..Len(top_products) :
                    top_products[i].id = p.id /\ top_products[i].vector_score = None}
    IN  IF same = {} THEN p
        ELSE [p EXCEPT !.description = top_products[CHOOSE i \in same : TRUE].description]

\* _background_index starts and awaits embed_texts; 'outcome' is what the
\* task goes on to log
IndexStart ==
    /\ index_task.state = "scheduled"
    /\ pc \in {"summarizing", "done", "raised"}
    /\ index_task' = [index_task EXCEPT !.state = "embedding"]
    /\ UNCHANGED <<sp_query, parsed_intent, max_results, llm, pc, qdrant, vector_results, task,
                   scraped_products, sp_filtered, sp_products, data_source,
                   scored_products, top_products, result, hvars, ivars>>

\* the indexing task with the embedding error raised into the request
IndexFinishRaising ==
    /\ index_task.state = "embedding"
    /\ \E outcome \in IndexOutcomes :
           /\ qdrant' = _index_products(qdrant, index_task.products, outcome)
           /\ index_task' = [index_task EXCEPT
                                !.state = IF outcome = "embed_error" THEN "failed" ELSE "done",
                                !.outcome = outcome]
           /\ pc' = IF outcome = "embed_error" THEN "raised" ELSE pc
    /\ UNCHANGED <<sp_query, parsed_intent, max_results, llm, vector_results, task,
                   scraped_products, sp_filtered, sp_products, data_source,
                   scored_products, top_products, result, hvars, ivars>>

\* embed_texts returns or raises; _index_products builds the points and
\* writes them; _background_index logs whatever was raised
IndexFinish ==
    /\ index_task.state = "embedding"
    /\ \E outcome \in IndexOutcomes :
           /\ qdrant' = _index_products(qdrant,
                            [i \in 1..Len(index_task.products) |-> AsNow(index_task.products[i])],
                            outcome)
           /\ index_task' = [index_task EXCEPT
                                !.state = IF outcome = "embed_error" THEN "failed" ELSE "done",
                                !.outcome = outcome]
    /\ UNCHANGED <<sp_query, parsed_intent, max_results, llm, pc, vector_results, task,
                   scraped_products, sp_filtered, sp_products, data_source,
                   scored_products, top_products, result, hvars, ivars>>

Next ==
    \/ CacheLookup
    \/ \E i \in Attempted : SourceComplete(i)
    \/ ScrapeReturn
    \/ SummariesReturn
    \/ IndexStart
    \/ IndexFinish

Spec == Init /\ [][Next]_vars

(***************************************************************************)
(* The fan-out of search_and_scrape in time: the fetch tasks of the two    *)
(* gathers, the timeouts of their HTTP clients, and the return of the      *)
(* outer gather. Time is counted in seconds.                               *)
(***************************************************************************)
\* httpx.AsyncClient(timeout=20.0): the longest wait for one socket read
JinaTimeout == 20

\* AsyncSession(..., timeout=15): the longest duration of the whole request
HtmlTimeout == 15

\* the seconds counted against the timeout of task i: since the last bytes
\* arrived for a reader fetch, since the start for a raw HTML fetch
TimeLimit(i) == IF i \in Level1Retailers THEN JinaTimeout ELSE HtmlTimeout

Outstanding == {i \in Attempted : h_out[i].state = "outstanding"}

FanOutInit ==
    /\ h_pc = "gathering"
    /\ h_query = <<>>
    /\ h_intent = NoIntent
    /\ h_products = <<>>
    /\ h_perm = <<>>
    /\ h_out = [i \in Attempted |-> [state |-> "outstanding", waited |-> 0]]
    /\ PipelineIdle
    /\ InventoryIdle

\* a second passes; a timeout that is due fires before the next one
Tick ==
    /\ h_pc = "gathering"
    /\ Outstanding # {}
    /\ \A i \in Outstanding : h_out[i].waited < TimeLimit(i)
    /\ h_out' = [i \in Attempted |->
                    IF i \in Outstanding
                    THEN [h_out[i] EXCEPT !.waited = h_out[i].waited + 1]
                    ELSE h_out[i]]
    /\ UNCHANGED <<h_pc, h_query, h_intent, h_products, h_perm, pvars, ivars>>

\* the reader sends some more bytes of its response: the read timeout of
\* the httpx client starts anew
BytesArrive(i) ==
    /\ h_pc = "gathering"
    /\ i \in Level1Retailers \cap Outstanding
    /\ h_out[i].waited > 0
    /\ h_out' = [h_out EXCEPT ![i].waited = 0]
    /\ UNCHANGED <<h_pc, h_query, h_intent, h_products, h_perm, pvars, ivars>>

\* the response of source i is complete: the task returns its listings, or
\* [] on a status other than 200 or an exception
Respond(i) ==
    /\ h_pc = "gathering"
    /\ i \in Outstanding
    /\ \E end \in {"listings", "empty"} : h_out' = [h_out EXCEPT ![i].state = end]
    /\ UNCHANGED <<h_pc, h_query, h_intent, h_products, h_perm, pvars, ivars>>

\* the client of task i raises its timeout, the task returns []
TimeOut(i) ==
    /\ h_pc = "gathering"
    /\ i \in Outstanding
    /\ h_out[i].waited = TimeLimit(i)
    /\ h_out' = [h_out EXCEPT ![i].state = "empty"]
    /\ UNCHANGED <<h_pc, h_query, h_intent, h_products, h_perm, pvars, ivars>>

\* results = await asyncio.gather(*tasks, return_exceptions=True) returns
\* when both levels have returned, each when all its tasks have
GatherReturn ==
    /\ h_pc = "gathering"
    /\ Outstanding = {}
    /\ h_pc' = "returned"
    /\ UNCHANGED <<h_out, h_query, h_intent, h_products, h_perm, pvars, ivars>>

FanOutNext ==
    \/ Tick
    \/ \E i \in Attempted : BytesArrive(i)
    \/ \E i \in Attempted : Respond(i)
    \/ \E i \in Attempted : TimeOut(i)
    \/ GatherReturn

\* time passes, due timeouts fire and the event loop resumes the gather;
\* what the sources send and when is not the program's to decide
FairFanOut ==
    /\ FanOutInit
    /\ [][FanOutNext]_vars
    /\ WF_vars(Tick)
    /\ \A i \in Attempted : WF_vars(TimeOut(i))
    /\ WF_vars(GatherReturn)

(***************************************************************************)
(* _extract_products_regex under test: pages whose links lead to the       *)
(* retailer's own domain and elsewhere.                                    *)
(***************************************************************************)
MaxExtractLen == 3

ExtractCards ==
    { Card(<<"S","l","i","m"," ","F","i","t"," ","J","e","a","n","s"," ","M","e","n","s">>, 4000, TRUE, <<"/","p","/","1">>, <<>>, <<>>),
      Card(<<"R","e","l","a","x","e","d"," ","D","e","n","i","m"," ","P","a","n","t","s">>, 6000, FALSE, <<"h","t","t","p","s",":","/","/","w","w","w",".","e","x","p","r","e","s","s",".","c","o","m","/","p","/","5">>, <<>>, <<>>),
      Card(<<"D","e","s","i","g","n","e","r"," ","D","e","n","i","m"," ","J","a","c","k","e","t">>, 12000, TRUE, <<"h","t","t","p","s",":","/","/","a","d","s",".","s","h","o","p","n","o","w",".","i","o","/","c","/","7","7">>, <<>>, <<>>),
      Card(<<"C","l","a","s","s","i","c"," ","P","o","l","o"," ","S","h","i","r","t"," ","M","e","n","s">>, 2500, FALSE,
           <<"h","t","t","p","s",":","/","/","t","r","a","c","k",".","i","o","/","r","?","t","o","=","e","x","p","r","e","s","s",".","c","o","m">>, <<>>, <<>>) }

\* h_products is the page content, h_perm the position of the retailer in
\* the registry
ExtractInit ==
    /\ h_pc = "input"
    /\ h_query = <<>>
    /\ h_intent = NoIntent
    /\ h_products \in ListsUpTo(ExtractCards, MaxExtractLen)
    /\ h_perm \in {<<1>>, <<2>>}
    /\ h_out = <<>>
    /\ PipelineIdle
    /\ InventoryIdle

ExtractRun ==
    /\ h_pc = "input"
    /\ h_pc' = "extracted"
    /\ h_out' = _extract_products_regex(h_products, FASHION_RETAILERS[h_perm[1]])
    /\ UNCHANGED <<h_query, h_intent, h_products, h_perm, pvars, ivars>>

ExtractNext == ExtractRun

SpecExtract == ExtractInit /\ [][ExtractNext]_vars

(***************************************************************************)
(* The full inventory scrape: POST /inventory/scrape and                   *)
(* run_full_inventory_scrape.  All coroutines run on one event loop, so    *)
(* each action is the code between two suspension points.                  *)
(***************************************************************************)
\* how many products asyncio.gather may bring back from the retailers
MaxScraped == 2

\* the positions at which run_full_inventory_scrape is suspended
Running(r) == scrape_request[r].job \in {"scraping", "embedding", "storing"}

\* scrape_all_retailers up to its asyncio.gather: the flag is raised and a
\* fresh InventoryScrapeStats becomes the current one
BeginRun(r) ==
    /\ _is_scraping' = TRUE
    /\ scrape_stats' = [scrape_stats EXCEPT ![r] = [NoStats EXCEPT !.created = TRUE]]
    /\ _current_scrape' = Some(r)
    /\ UNCHANGED _last_scrape

\* the finally block of run_full_inventory_scrape
Finally ==
    /\ _is_scraping' = FALSE
    /\ _last_scrape' = _current_scrape
    /\ _current_scrape' = None

\* the response of a request that awaited its run (async_mode false)
Answer(r, job, response) ==
    scrape_request' = [scrape_request EXCEPT
        ![r].job = job,
        ![r].pc = IF scrape_request[r].async_mode THEN @ ELSE "answered",
        ![r].response = IF scrape_request[r].async_mode THEN @ ELSE response]

\* trigger_inventory_scrape: 409 while the flag is up; otherwise the run is
\* handed to BackgroundTasks, or awaited and so started at once
Trigger(r, async_mode) ==
    /\ scrape_request[r].pc = "new"
    /\ \A q \in 1..(r - 1) : scrape_request[q].pc # "new"
    /\ IF _is_scraping
       THEN /\ scrape_request' = [scrape_request EXCEPT ![r] =
                   [pc |-> "answered", async_mode |-> async_mode, response |-> "409",
                    job |-> "none"]]
            /\ UNCHANGED <<_is_scraping, _current_scrape, _last_scrape, scrape_stats>>
       ELSE IF async_mode
       THEN /\ scrape_request' = [scrape_request EXCEPT ![r] =
                   [pc |-> "answered", async_mode |-> TRUE, response |-> "started",
                    job |-> "queued"]]
            /\ UNCHANGED <<_is_scraping, _current_scrape, _last_scrape, scrape_stats>>
       ELSE /\ scrape_request' = [scrape_request EXCEPT ![r] =
                   [pc |-> "waiting", async_mode |-> FALSE, response |-> "none",
                    job |-> "scraping"]]
            /\ BeginRun(r)
    /\ UNCHANGED <<hvars, pvars>>

\* the background task starts once the response has been sent
StartBackground(r) ==
    /\ scrape_request[r].job = "queued"
    /\ scrape_request' = [scrape_request EXCEPT ![r].job = "scraping"]
    /\ BeginRun(r)
    /\ UNCHANGED <<hvars, pvars>>

\* asyncio.gather returns with n products; with none the run ends here
ScrapeDone(r, n) ==
    /\ scrape_request[r].job = "scraping"
    /\ IF n = 0
       THEN /\ scrape_stats' = [scrape_stats EXCEPT ![r].total_products_scraped = 0,
                                                    ![r].completed_at = TRUE]
            /\ Finally
            /\ Answer(r, "returned", "completed")
       ELSE /\ scrape_stats' = [scrape_stats EXCEPT ![r].total_products_scraped = n]
            /\ scrape_request' = [scrape_request EXCEPT ![r].job = "embedding"]
            /\ UNCHANGED <<_is_scraping, _current_scrape, _last_scrape>>
    /\ UNCHANGED <<hvars, pvars>>

\* the except and finally blocks: the error is recorded on whichever stats
\* object is the current one
Raise(r) ==
    /\ scrape_stats' =
           IF Truthy(_current_scrape)
           THEN [scrape_stats EXCEPT ![_current_scrape[1]].errors = @ + 1,
                                     ![_current_scrape[1]].completed_at = TRUE]
           ELSE scrape_stats
    /\ Finally
    /\ Answer(r, "raised", "500")

\* embed_products returns or raises
EmbedDone(r, ok) ==
    /\ scrape_request[r].job = "embedding"
    /\ IF ok
       THEN /\ scrape_request' = [scrape_request EXCEPT ![r].job = "storing"]
            /\ UNCHANGED <<_is_scraping, _current_scrape, _last_scrape, scrape_stats>>
       ELSE Raise(r)
    /\ UNCHANGED <<hvars, pvars>>

\* store_in_database and store_in_vector_db return or one of them raises
StoreDone(r, ok) ==
    /\ scrape_request[r].job = "storing"
    /\ IF ok
       THEN /\ scrape_stats' = [scrape_stats EXCEPT ![r].completed_at = TRUE]
            /\ Finally
            /\ Answer(r, "returned", "completed")
       ELSE Raise(r)
    /\ UNCHANGED <<hvars, pvars>>

InventoryInit ==
    /\ HarnessIdle
    /\ PipelineIdle
    /\ InventoryIdle

InventoryNext ==
    \E r \in 1..TriggerCount :
        \/ \E async_mode \in BOOLEAN : Trigger(r, async_mode)
        \/ StartBackground(r)
        \/ \E n \in 0..MaxScraped : ScrapeDone(r, n)
        \/ \E ok \in BOOLEAN : EmbedDone(r, ok)
        \/ \E ok \in BOOLEAN : StoreDone(r, ok)

SpecInventory == InventoryInit /\ [][InventoryNext]_vars
SpecDedup == DedupInit /\ [][DedupNext]_vars

\* C6: for every list of raw listings and every permutation of it,
\* _deduplicate returns lists with the same set of fingerprints, and
\* _deduplicate applied to its own output returns that output unchanged.
C6_DedupIdempotence ==
    /\ h_pc \in {"deduped", "rerun"} =>
           FingerprintSet(h_out.first) = FingerprintSet(h_out.permuted)
    /\ h_pc = "rerun" => h_out.again = h_out.first

C6_Witness ==
    /\ h_pc = "rerun"
    /\ h_perm # h_products
    /\ Len(h_out.first) < Len(h_products)
    /\ Len(h_out.first) >= 2


\* C7: a kept entry has each optional field (image, description, rating,
\* review count) filled whenever a listing with the same fingerprint has it.
C7_DedupMerge ==
    h_pc \in {"deduped", "rerun"} =>
        \A i \in 1..Len(h_out.first), j \in 1..Len(h_products) :
            LET kept == h_out.first[i]
                dup == h_products[j]
            IN  Fingerprint(kept.title) = Fingerprint(dup.title) =>
                    /\ kept.image_url = <<>> => dup.image_url = <<>>
                    /\ kept.description = <<>> => dup.description = <<>>
                    /\ kept.rating = None => dup.rating = None
                    /\ kept.review_count = None => dup.review_count = None

SpecFilter == FilterInit /\ [][FilterNext]_vars

\* the number of listings of h_products that pass the three tests
NumPassing == Len(KeywordFiltered(h_query, h_products, h_intent))

\* C9: when more than 5 candidates go in and fewer than 5 pass the keyword,
\* gender and accessory tests, _filter_by_keywords returns the first
\* min(N, 30) candidates in input order, so at least 5 come out.
C9_FilterSafetyValve ==
    (h_pc = "filtered" /\ Len(h_products) > 5 /\ NumPassing < 5) =>
        /\ h_out = Prefix(h_products, 30)
        /\ Len(h_out) = (IF Len(h_products) < 30 THEN Len(h_products) ELSE 30)
        /\ Len(h_out) >= 5

C9_Witness ==
    /\ h_pc = "filtered"
    /\ Len(h_products) > 30
    /\ NumPassing \in 1..4
    /\ Len(h_out) = 30


SpecScore == ScoreInit /\ [][ScoreNext]_vars

\* C10: for every listing and intent given to score_products, each of the
\* five scores lies in [0,100] (0..1000 in tenths) and scoring completes.
C10_ScoreBounds ==
    h_pc = "scored" =>
        /\ ~h_out.raised
        /\ \A i \in 1..Len(h_out.products) :
               LET s == h_out.products[i].scores[1] IN
               /\ s.price_score \in 0..1000
               /\ s.rating_score \in 0..1000
               /\ s.review_volume_score \in 0..1000
               /\ s.spec_match_score \in 0..1000
               /\ s.final_score \in 0..1000

(***************************************************************************)
(* Properties of a request                                                 *)
(***************************************************************************)
\* search_and_scrape was called in this request
ScrapeStarted == \E i \in Attempted : task[i] # "idle"

\* scoring has completed
Scored == pc \in {"summarizing", "done"}

\* the names of the retailers whose fetch and extraction succeeded
OkRetailerNames == {FASHION_RETAILERS[i].name : i \in {j \in Attempted : task[j] = "ok"}}

\* the cards a retailer's search page shows with a price both extractors and
\* _sort_products accept
SoundCards(i) ==
    {CatalogPages[i].ok[k] : k \in {j \in 1..Len(CatalogPages[i].ok) :
        CatalogPages[i].ok[j].price >= 1000 /\ CatalogPages[i].ok[j].price <= 100000}}

\* C1: whichever retailers fail (error status, timeout, exception while
\* fetching or extracting), the request does not raise, no listing of a failed
\* retailer is among the scraped or returned listings, and the listings of
\* every retailer that succeeded are in the scrape result.
C1_FanOutResilience ==
    /\ pc # "raised"
    /\ (Scored /\ ScrapeStarted) =>
        /\ \A k \in 1..Len(scraped_products) :
               /\ scraped_products[k].source \in OkRetailerNames
               /\ \E i \in Attempted :
                      /\ task[i] = "ok"
                      /\ FASHION_RETAILERS[i].name = scraped_products[k].source
                      /\ \E c \in Range(CatalogPages[i].ok) : c.title = scraped_products[k].title
        /\ \A i \in Attempted : task[i] = "ok" =>
               \A c \in SoundCards(i) :
                   Fingerprint(c.title) \in FingerprintSet(scraped_products)
        /\ \A k \in 1..Len(sp_filtered) : sp_filtered[k] \in Range(scraped_products)
    /\ (pc = "done" /\ ScrapeStarted) =>
        \A k \in 1..Len(result.products) :
            LET p == result.products[k] IN
            (p.vector_score = None /\ p.source # <<"d","e","m","o">>) => p.source \in OkRetailerNames

C1_Witness ==
    /\ pc = "done"
    /\ {"ok", "non200", "exception"} \subseteq {task[i] : i \in Attempted}
    /\ vector_results = <<>>
    /\ result.products # <<>>
    /\ \A k \in 1..Len(result.products) : result.products[k].source \in OkRetailerNames

\* C2: once the cache lookup has returned, more than 3 hits mean that no
\* scrape is started and the candidates are exactly the hits; 3 or fewer
\* (none on a lookup error) mean that the scrape is started and the
\* candidates are the fresh relevant listings followed by the hits.
C2_CacheDecisionRule ==
    pc # "start" =>
        /\ Len(vector_results) > 3 =>
               /\ ~ScrapeStarted
               /\ pc \in {"summarizing", "done", "raised"}
               /\ sp_products = vector_results
               /\ scraped_products = <<>>
        /\ Len(vector_results) <= 3 =>
               /\ ScrapeStarted
               /\ (Scored /\ data_source # {<<"d","e","m","o">>}) => sp_products = sp_filtered \o vector_results
               /\ (Scored /\ data_source = {<<"d","e","m","o">>}) => sp_filtered \o vector_results = <<>>

C2_Witness ==
    /\ pc = "done"
    /\ Len(vector_results) = 3
    /\ sp_filtered # <<>>
    /\ sp_products = sp_filtered \o vector_results

\* what search_products returns: at most max_results listings, and an empty
\* list only with the disclaimer set
ReturnsResult ==
    pc = "done" =>
        /\ Len(result.products) <= max_results
        /\ result.total_found >= Len(result.products)
        /\ result.products = <<>> => result.disclaimer # None

TaskResult(i) ==
    IF i \in Level1Retailers THEN _jina_scrape_retailer(i, task[i])
    ELSE _scrape_single_store(i, task[i])

\* Scenario B: the request has returned, every retailer yielded no listing
\* and the cache no entry
ScenarioB ==
    /\ pc = "done"
    /\ ScrapeStarted
    /\ vector_results = <<>>
    /\ \A i \in Attempted : TaskResult(i) = <<>>

\* the listings of the static sample set for the intent's category
SampleSet ==
    IF parsed_intent.category = <<"e","a","r","b","u","d","s">> THEN demo_products(parsed_intent).earbuds
    ELSE demo_products(parsed_intent).default

\* C4 as stated: in Scenario B the returned list is empty and labelled
\* "demo".
C4_ScenarioBEmptyList ==
    ScenarioB => (result.products = <<>> /\ result.data_source = {<<"d","e","m","o">>})

\* C4, amended: in Scenario B the request does not raise and returns, under
\* the label "demo" and with the disclaimer set, the best max_results
\* listings of the static sample set that fit the budget; the list is empty
\* only when no sample listing fits the budget.
C4_ScenarioBSampleSet ==
    /\ pc # "raised"
    /\ ScenarioB =>
        LET fitting == {i \in 1..Len(SampleSet) :
                           Truthy(parsed_intent.budget_max) =>
                               SampleSet[i].price[1] <= parsed_intent.budget_max[1]}
        IN  /\ result.data_source = {<<"d","e","m","o">>}
            /\ result.disclaimer # None
            /\ result.total_found = Cardinality(fitting)
            /\ Len(result.products) = Min(max_results, Cardinality(fitting))
            /\ \A k \in 1..Len(result.products) :
                   \E i \in fitting : /\ SampleSet[i].id = result.products[k].id
                                       /\ SampleSet[i].title = result.products[k].title
                                       /\ SampleSet[i].price = result.products[k].price

C4_Witness ==
    /\ ScenarioB
    /\ result.data_source = {<<"d","e","m","o">>}
    /\ result.products # <<>>
    /\ Truthy(parsed_intent.budget_max)
    /\ Len(result.products) < Len(SampleSet)

\* C5: a later tier runs exactly when the tiers before it yielded fewer than
\* 2 listings: the scrape exactly when the cache yielded fewer than 2, the
\* static sample set exactly when cache and scrape together yielded fewer
\* than 2.
C5_FallbackTiers ==
    Scored =>
        /\ ScrapeStarted <=> Len(vector_results) < 2
        /\ data_source = {<<"d","e","m","o">>} <=> Len(sp_filtered) + Len(vector_results) < 2

\* C8: the listings handed to the Scoring Engine have pairwise different
\* fingerprints.
C8_CandidateUniqueness ==
    Scored =>
        \A i, j \in 1..Len(sp_products) :
            Fingerprint(sp_products[i].title) = Fingerprint(sp_products[j].title) => i = j

\* whether the price score of the request's budget branch applies to p
PricedWithinBudget(p) ==
    /\ Truthy(h_intent.budget_max) /\ h_intent.budget_max[1] > 0
    /\ Truthy(p.price) /\ p.price[1] > 0
    /\ p.price[1] <= h_intent.budget_max[1]

\* C11: with budget_max set, of two scored listings priced above zero and
\* at or below budget_max, the cheaper one's price score is greater than or
\* equal to the costlier one's.
C11_PriceMonotonicity ==
    (h_pc = "scored" /\ ~h_out.raised) =>
        \A i, j \in 1..Len(h_out.products) :
            LET a == h_out.products[i]
                b == h_out.products[j]
            IN  (PricedWithinBudget(a) /\ PricedWithinBudget(b) /\ a.price[1] <= b.price[1])
                    => a.scores[1].price_score >= b.scores[1].price_score

C11_Witness ==
    /\ h_pc = "scored"
    /\ ~h_out.raised
    /\ \E i, j \in 1..Len(h_out.products) :
           LET a == h_out.products[i]
               b == h_out.products[j]
           IN  /\ PricedWithinBudget(a) /\ PricedWithinBudget(b)
               /\ a.price[1] < b.price[1]
               /\ a.scores[1].price_score > b.scores[1].price_score

\* Scenario A of the specification: a men's jeans query with a budget of 50
\* and two candidates, men's jeans at 40 (4.5, 200 reviews) and women's
\* jeans at 60 (4.8, 5000 reviews)
ScenarioA ==
    /\ h_query = <<"m","e","n","s"," ","j","e","a","n","s"," ","u","n","d","e","r"," ","$","5","0">>
    /\ h_intent = [NoIntent EXCEPT !.category = <<"j","e","a","n","s">>, !.budget_max = Some(5000)]
    /\ Len(h_products) = 2
    /\ h_products[1].title = <<"S","l","i","m"," ","F","i","t"," ","J","e","a","n","s"," ","M","e","n","s">>
    /\ h_products[1].price = Some(4000)
    /\ h_products[1].rating = Some(45) /\ h_products[1].review_count = Some(200)
    /\ h_products[2].title = <<"W","o","m","e","n","s"," ","S","k","i","n","n","y"," ","J","e","a","n","s">>
    /\ h_products[2].price = Some(6000)
    /\ h_products[2].rating = Some(48) /\ h_products[2].review_count = Some(5000)

\* C12: in Scenario A the filter-and-score output holds only the 40 item,
\* and that item's price score is greater than 80.
C12_ScenarioA ==
    (h_pc = "filter_scored" /\ ScenarioA) =>
        /\ ~h_out.raised
        /\ Len(h_out.products) = 1
        /\ h_out.products[1].id = h_products[1].id
        /\ h_out.products[1].scores[1].price_score > 800

\* whether a and b are the same listing, scores and description aside
SameListing(a, b) ==
    /\ a.id = b.id /\ a.title = b.title /\ a.price = b.price
    /\ a.source = b.source /\ a.affiliate_url = b.affiliate_url

\* how many of the first k members of seq are the listing seq[k]
Occurrence(seq, k) == Cardinality({i \in 1..k : SameListing(seq[i], seq[k])})

\* the positions in the candidate list given to scoring of the k-th member
\* of the ranked list: the n-th occurrence there of the n-th occurrence here
CandidatePositions(k) ==
    {i \in 1..Len(sp_products) :
        /\ SameListing(sp_products[i], result.products[k])
        /\ Occurrence(sp_products, i) = Occurrence(result.products, k)}

\* C13: the ranked list search_products returns is in non-increasing
\* final_score order, two listings of equal final_score stand in the order
\* they had in the candidate list given to scoring, and the list has at
\* most max_results members.
C13_RankingOrder ==
    pc = "done" =>
        /\ Len(result.products) <= max_results
        /\ \A k \in 1..Len(result.products) : CandidatePositions(k) # {}
        /\ \A k, l \in 1..Len(result.products) :
               k < l =>
                   LET a == result.products[k].scores[1].final_score
                       b == result.products[l].scores[1].final_score
                   IN  /\ a >= b
                       /\ a = b => \A i \in CandidatePositions(k), j \in CandidatePositions(l) : i < j

C13_Witness ==
    /\ pc = "done"
    /\ \E k, l \in 1..Len(result.products) :
           /\ k < l
           /\ ~SameListing(result.products[k], result.products[l])
           /\ result.products[k].scores[1].final_score = result.products[l].scores[1].final_score
    /\ \E k, l \in 1..Len(result.products) :
           result.products[k].scores[1].final_score > result.products[l].scores[1].final_score

\* C14: once the index task is scheduled, no step of it (start, success,
\* failure) changes the request's position, its ranked list or its result;
\* in particular an indexing failure raises nothing into the request.
C14_FireAndForget ==
    [][(index_task.state \in {"scheduled", "embedding"} /\ index_task' # index_task)
          => /\ pc' = pc
             /\ result' = result
             /\ top_products' = top_products
             /\ scored_products' = scored_products]_vars

C14_Witness ==
    /\ pc = "done"
    /\ result.products # <<>>
    /\ index_task.state = "failed"

\* C15: every point the index task has written for a listing it was handed
\* is the payload of that listing as the Relevance Filter accepted it.
C15_IndexingIsolation ==
    index_task.state = "done" =>
        \A i \in 1..Len(index_task.products), k \in 1..Len(qdrant.points) :
            qdrant.points[k].id = index_task.products[i].id
                => qdrant.points[k] = Payload(index_task.products[i])

\* the ids of the points of a collection
PointIds(collection) == {collection.points[k].id : k \in 1..Len(collection.points)}

\* a step in which _index_products, with embeddings at hand and the index
\* answering, reaches the end of its upsert
IndexedStep ==
    /\ index_task.state = "embedding"
    /\ index_task'.state = "done"
    /\ index_task'.outcome = "ok"

\* C16: when _index_products has embedded listings and the index answers,
\* the collection it leaves exists with the current vector dimension: an
\* absent one was created, one of another dimension was deleted and
\* recreated (its old points are gone), one of the same dimension was left
\* as it was; in all three cases the listings were then upserted.
C16_IndexSelfHealing ==
    [][IndexedStep =>
          /\ qdrant'.exists /\ qdrant'.dim = EMBEDDING_DIM
          /\ {index_task.products[i].id : i \in 1..Len(index_task.products)}
                 \subseteq PointIds(qdrant')
          /\ IF qdrant.exists /\ qdrant.dim = EMBEDDING_DIM
             THEN /\ PointIds(qdrant) \subseteq PointIds(qdrant')
                  /\ \A k \in 1..Len(qdrant.points) :
                         (\A i \in 1..Len(index_task.products) :
                              index_task.products[i].id # qdrant.points[k].id)
                             => \E n \in 1..Len(qdrant'.points) :
                                    qdrant'.points[n] = qdrant.points[k]
             ELSE PointIds(qdrant') =
                      {index_task.products[i].id : i \in 1..Len(index_task.products)}]_vars

C16_Witness ==
    /\ index_task.state = "done"
    /\ index_task.outcome = "ok"
    /\ qdrant.exists /\ qdrant.dim = EMBEDDING_DIM
    /\ \E k \in 1..Len(qdrant.points) :
           \A i \in 1..Len(index_task.products) :
               index_task.products[i].id # qdrant.points[k].id
    /\ \A i \in 1..Len(index_task.products) : index_task.products[i].id \in PointIds(qdrant)

\* C17: no step of the pipeline removes an entry from the similarity
\* index: every stored point id is still stored after the step.
C17_NeverDeleted ==
    [][PointIds(qdrant) \subseteq PointIds(qdrant')]_vars

\* C18: one scrape starts a fetch task for every Source Descriptor of the
\* registry FASHION_RETAILERS, none skipped.
C18_FanOutCoverage ==
    pc = "scraping" =>
        \A i \in 1..Len(FASHION_RETAILERS) : i \in DOMAIN task /\ task[i] # "idle"

\* C19: the fan-out of search_and_scrape always completes, whatever the
\* sources do: tasks still outstanding at the ceiling time are abandoned,
\* so the gather returns.
C19_FanOutCeiling == <>(h_pc = "returned")

\* the points of the collection that pass the query filter of the request
Matching == SelectSeq(qdrant.points, LAMBDA p : MatchesFilter(p, parsed_intent))

\* C20: every listing _search_vector_db returned has a similarity score of
\* at least 0.7, and of the points the index answers with, those scoring
\* 0.7 or more (exactly 0.7 included) are returned and those below are not.
C20_ConfidenceThreshold ==
    /\ \A i \in 1..Len(vector_results) :
           /\ Truthy(vector_results[i].vector_score)
           /\ vector_results[i].vector_score[1] >= CONFIDENCE_THRESHOLD
    /\ (pc = "start" /\ qdrant.exists /\ qdrant.dim = EMBEDDING_DIM) =>
           \A k \in 0..Len(qdrant.points) :
               LET answer == query_points(qdrant, parsed_intent, max_results + 5, k)
                   found == _search_vector_db(qdrant, parsed_intent, max_results + 5,
                                              "answer", k)
               IN  \A n \in 1..Len(answer) :
                       answer[n].score >= CONFIDENCE_THRESHOLD
                           <=> \E i \in 1..Len(found) :
                                   /\ found[i].id = answer[n].payload.id
                                   /\ found[i].vector_score = Some(answer[n].score)

C20_Witness ==
    /\ pc # "start"
    /\ \E i \in 1..Len(vector_results) :
           vector_results[i].vector_score = Some(CONFIDENCE_THRESHOLD)
    /\ Len(vector_results) < Len(Matching)
    /\ Len(Matching) <= max_results + 5

\* an intent whose budget_min lies above its budget_max
MalformedBudget(intent) ==
    /\ Truthy(intent.budget_min) /\ Truthy(intent.budget_max)
    /\ intent.budget_min[1] > intent.budget_max[1]

\* the intent with both budget bounds absent
WithoutBudget(intent) == [intent EXCEPT !.budget_min = None, !.budget_max = None]

\* C21: an intent with budget_min > budget_max is treated as having no
\* budget constraint: score_products gives what it gives for the same
\* intent with both bounds absent, and raises nothing.
C21_MalformedIntent ==
    (h_pc = "scored" /\ MalformedBudget(h_intent)) =>
        /\ ~h_out.raised
        /\ h_out = score_products(h_products, WithoutBudget(h_intent))

\* whether the text of listing p carries a kids term of the relevance filter
HasKidsTerms(p) == "kids" \in GendersIn(Joined(Lower(p.title), Lower(p.description)))

\* C22: with the gender constraint men or women, a listing carrying kids
\* terms that passes the category and accessory tests is not rejected by
\* _filter_by_keywords.
C22_KidsTolerance ==
    (h_pc = "filtered" /\ TargetGender(Lower(h_query)) \in {"men", "women"}) =>
        \A i \in 1..Len(h_products) :
            (/\ HasKidsTerms(h_products[i])
             /\ KeywordKeeps(h_products[i], Lower(h_query),
                             TargetKeywords(Lower(h_query), h_intent), "none"))
                => \E j \in 1..Len(h_out) : h_out[j] = h_products[i]

\* whether url is an absolute address on the domain: the scheme, the domain
\* with or without www., then the end or a path
OnDomain(url, domain) ==
    \E start \in {<<"h","t","t","p","s",":","/","/">> \o domain, <<"h","t","t","p","s",":","/","/","w","w","w",".">> \o domain,
                  <<"h","t","t","p",":","/","/">> \o domain, <<"h","t","t","p",":","/","/","w","w","w",".">> \o domain} :
        /\ StartsWith(url, start)
        /\ Len(url) > Len(start) => url[Len(start) + 1] = "/"

\* C23: every listing _extract_products_regex emits carries the URL of its
\* own link, absolute and on the source's domain; a link that leads
\* elsewhere gives no listing.
C23_ExtractionUrl ==
    h_pc = "extracted" =>
        \A k \in 1..Len(h_out) :
            LET retailer == FASHION_RETAILERS[h_perm[1]] IN
            /\ OnDomain(h_out[k].affiliate_url, retailer.domain)
            /\ \E i \in 1..Len(h_products) :
                   /\ h_products[i].title = h_out[k].title
                   /\ LinkUrl(h_products[i], retailer) = h_out[k].affiliate_url

\* C24: while at least one candidate has a valid link, no listing without
\* one is among those score_products returns, the fallback to the input
\* list after the gender test rejected every candidate included.
C24_ValidLinks ==
    (/\ h_pc = "scored" /\ ~h_out.raised
     /\ \E i \in 1..Len(h_products) : HasValidLink(h_products[i])) =>
        \A k \in 1..Len(h_out.products) : HasValidLink(h_out.products[k])

\* C25: with budget_max set, a scored listing priced above budget_max has
\* no higher price score than a scored listing with a positive price at or
\* below budget_max.
C25_BudgetBoundary ==
    (h_pc = "scored" /\ ~h_out.raised
        /\ Truthy(h_intent.budget_max) /\ h_intent.budget_max[1] > 0) =>
        \A i, j \in 1..Len(h_out.products) :
            LET a == h_out.products[i]
                b == h_out.products[j]
            IN  (/\ PricedWithinBudget(a)
                 /\ Truthy(b.price) /\ b.price[1] > h_intent.budget_max[1])
                    => a.scores[1].price_score >= b.scores[1].price_score

\* the genders one of whose terms stands in text as a word of its own
GendersNamed(text) ==
    {gender_terms[k].gender :
        k \in {j \in 1..Len(gender_terms) :
                  \E n \in 1..Len(gender_terms[j].terms) :
                      gender_terms[j].terms[n] \in Range(WordRuns(text, 1, <<>>, <<>>))}}

\* C26: the gender constraint _filter_by_keywords derives from the query is
\* a gender the query names with a word of its own ("womens jeans" never
\* gives men), and none when the query names no gender.
C26_GenderDerivation ==
    h_pc = "filtered" =>
        LET named == GendersNamed(Lower(h_query))
            target_gender == TargetGender(Lower(h_query))
        IN  IF named = {} THEN target_gender = "none" ELSE target_gender \in named

\* whether listing p of the ranked list came from the cache lookup
FromCache(p) == p.vector_score # None

\* C27: the data_source search_products returns says where the ranked
\* listings (the scored list the response is cut from) came from: "indexed" exactly when they are the cache result,
\* "demo" exactly when they are the static sample set, a scrape label only
\* when a listing of the fresh scrape is among them; the disclaimer is null
\* exactly when data_source is "indexed".
C27_SourceLabel ==
    (pc = "done" /\ scored_products # <<>>) =>
        LET listed == scored_products
            all_cached == \A k \in 1..Len(listed) : FromCache(listed[k])
            all_demo == \A k \in 1..Len(listed) : listed[k].source = <<"d","e","m","o">>
        IN  /\ result.data_source = {<<"i","n","d","e","x","e","d">>} <=> all_cached
            /\ result.data_source = {<<"d","e","m","o">>} <=> all_demo
            /\ (result.disclaimer = <<>>) <=> (result.data_source = {<<"i","n","d","e","x","e","d">>})

\* C28: at most one full inventory scrape runs at any time: a trigger
\* issued after another scrape was accepted and before it finished gets
\* 409, however the triggers interleave with the start of the background
\* task.
C28_SingleScrape ==
    Cardinality({r \in 1..TriggerCount : Running(r)}) <= 1

\* the step in which the run of request r ends
RunEnds(r) ==
    /\ Running(r)
    /\ scrape_request'[r].job \in {"returned", "raised"}

\* C29: while a full inventory scrape is running _is_scraping is true and
\* _current_scrape is set, and when run_full_inventory_scrape ends (normally,
\* with no products, or by an exception) _is_scraping is false,
\* _current_scrape is None and _last_scrape is the stats object of that run.
C29_StatusLifecycle ==
    [][/\ \A r \in 1..TriggerCount :
              Running(r)' => _is_scraping' /\ _current_scrape' # None
       /\ \A r \in 1..TriggerCount :
              RunEnds(r) => /\ ~_is_scraping'
                            /\ _current_scrape' = None
                            /\ _last_scrape' = Some(r)]_vars

\* C30: the indexing task is created only on the scrape path and is handed
\* exactly the list _filter_by_keywords returned; none is created when that
\* list is empty, when the request is answered from the cache alone, or
\* with the demo products.
C30_IndexOnlyAccepted ==
    /\ index_task.state # "none" =>
           /\ pc \notin {"idle", "start", "scraping"}
           /\ scraped_products # <<>>
           /\ sp_filtered # <<>>
           /\ index_task.products = sp_filtered
    /\ (pc \in {"summarizing", "done", "raised"}
          /\ (sp_filtered = <<>> \/ data_source = {<<"i","n","d","e","x","e","d">>} \/ data_source = {<<"d","e","m","o">>}))
       => index_task.state = "none"

C30_Witness ==
    /\ pc = "done"
    /\ index_task.state # "none"
    /\ sp_filtered # <<>>
    /\ Len(sp_filtered) < Len(scraped_products)
    /\ vector_results # <<>>
====
